---- MODULE Spec2Model ----
(***************************************************************************)
(* Add-on reconciliation (_update_addons), the add-on command handlers     *)
(* (aks_enable_addons, aks_disable_addons) and the role-assignment         *)
(* deletion wait (_delete_role_assignments) of                             *)
(* azext_aks_preview/custom.py.                                            *)
(*                                                                         *)
(* Python values are encoded so that every field has one TLA+ type:        *)
(*   - an optional string is a string, None being the string "None";       *)
(*   - an optional object is a record with a field null;                   *)
(*   - a dict is a function over its key set;                              *)
(*   - a config value is [type, val]: str "true" is Str("true"), the       *)
(*     Python boolean False is Bool(FALSE), which prints as "False".       *)
(***************************************************************************)
EXTENDS Integers, Sequences, FiniteSets, TLC

VARIABLES
    pool,       \* add-on names this session's commands draw their tokens from
    instance,   \* the ManagedCluster object last handed to _update_addons
    pre,        \* that object as it was when the call started
    call,       \* the inputs of the last call
    ret,        \* how the last call ended: "none", "ok" or the error raised
    remote,     \* the cluster as the management API stores it
    cmd,        \* what the last command handler did (requests, helper calls)
    wait        \* the state of a running _delete_role_assignments

vars == <<pool, instance, pre, call, ret, remote, cmd, wait>>

-----------------------------------------------------------------------------
(* Bounds of the model *)

\* longest comma-separated add-on list passed to a command
MaxTokens == 2

\* largest value of the delay argument of _delete_role_assignments
MaxDelay == 3

\* largest number of agent pools of a cluster that is upgraded
MaxPools == 2

-----------------------------------------------------------------------------
(* Names imported from _consts.py *)

CONST_HTTP_APPLICATION_ROUTING_ADDON_NAME == "httpApplicationRouting"
CONST_MONITORING_ADDON_NAME == "omsagent"
CONST_MONITORING_LOG_ANALYTICS_WORKSPACE_RESOURCE_ID == "logAnalyticsWorkspaceResourceID"
CONST_MONITORING_USING_AAD_MSI_AUTH == "useAADAuth"
CONST_VIRTUAL_NODE_ADDON_NAME == "aciConnector"
CONST_VIRTUAL_NODE_SUBNET_NAME == "SubnetName"
CONST_KUBE_DASHBOARD_ADDON_NAME == "kubeDashboard"
CONST_AZURE_POLICY_ADDON_NAME == "azurepolicy"
CONST_INGRESS_APPGW_ADDON_NAME == "ingressApplicationGateway"
CONST_INGRESS_APPGW_APPLICATION_GATEWAY_NAME == "applicationGatewayName"
CONST_INGRESS_APPGW_APPLICATION_GATEWAY_ID == "applicationGatewayId"
CONST_INGRESS_APPGW_SUBNET_ID == "subnetId"
CONST_INGRESS_APPGW_SUBNET_CIDR == "subnetCIDR"
CONST_INGRESS_APPGW_WATCH_NAMESPACE == "watchNamespace"
CONST_CONFCOM_ADDON_NAME == "ACCSGXDevicePlugin"
CONST_ACC_SGX_QUOTE_HELPER_ENABLED == "ACCSGXQuoteHelperEnabled"
CONST_OPEN_SERVICE_MESH_ADDON_NAME == "openServiceMesh"
CONST_AZURE_KEYVAULT_SECRETS_PROVIDER_ADDON_NAME == "azureKeyvaultSecretsProvider"
CONST_SECRET_ROTATION_ENABLED == "enableSecretRotation"
CONST_ROTATION_POLL_INTERVAL == "rotationPollInterval"
CONST_GITOPS_ADDON_NAME == "gitops"
CONST_WEB_APPLICATION_ROUTING_KEY_NAME == "ingressProfile.webAppRouting"

\* the ADDONS catalog: command-line add-on name -> add-on profile key
ADDONS ==
    [n \in {"http_application_routing", "monitoring", "virtual-node",
            "kube-dashboard", "azure-policy", "ingress-appgw", "confcom",
            "open-service-mesh", "azure-keyvault-secrets-provider", "gitops",
            "web_application_routing"} |->
        CASE n = "http_application_routing" -> CONST_HTTP_APPLICATION_ROUTING_ADDON_NAME
          [] n = "monitoring" -> CONST_MONITORING_ADDON_NAME
          [] n = "virtual-node" -> CONST_VIRTUAL_NODE_ADDON_NAME
          [] n = "kube-dashboard" -> CONST_KUBE_DASHBOARD_ADDON_NAME
          [] n = "azure-policy" -> CONST_AZURE_POLICY_ADDON_NAME
          [] n = "ingress-appgw" -> CONST_INGRESS_APPGW_ADDON_NAME
          [] n = "confcom" -> CONST_CONFCOM_ADDON_NAME
          [] n = "open-service-mesh" -> CONST_OPEN_SERVICE_MESH_ADDON_NAME
          [] n = "azure-keyvault-secrets-provider" ->
                 CONST_AZURE_KEYVAULT_SECRETS_PROVIDER_ADDON_NAME
          [] n = "gitops" -> CONST_GITOPS_ADDON_NAME
          [] n = "web_application_routing" -> CONST_WEB_APPLICATION_ROUTING_KEY_NAME]

\* os_type = 'Linux'
os_type == "Linux"

-----------------------------------------------------------------------------
(* Strings *)

\* str.lower() on the strings that occur as profile keys, config values,
\* cloud names and agent pool types
Lower(s) ==
    CASE s = "omsAgent" -> "omsagent"
      [] s = "HttpApplicationRouting" -> "httpapplicationrouting"
      [] s = "httpApplicationRouting" -> "httpapplicationrouting"
      [] s = "AciConnectorLinux" -> "aciconnectorlinux"
      [] s = "aciConnectorLinux" -> "aciconnectorlinux"
      [] s = "aciConnector" -> "aciconnector"
      [] s = "KubeDashboard" -> "kubedashboard"
      [] s = "kubeDashboard" -> "kubedashboard"
      [] s = "AzurePolicy" -> "azurepolicy"
      [] s = "IngressApplicationGateway" -> "ingressapplicationgateway"
      [] s = "ingressApplicationGateway" -> "ingressapplicationgateway"
      [] s = "ACCSGXDevicePlugin" -> "accsgxdeviceplugin"
      [] s = "accsgxdeviceplugin" -> "accsgxdeviceplugin"
      [] s = "OpenServiceMesh" -> "openservicemesh"
      [] s = "openServiceMesh" -> "openservicemesh"
      [] s = "AzureKeyvaultSecretsProvider" -> "azurekeyvaultsecretsprovider"
      [] s = "azureKeyvaultSecretsProvider" -> "azurekeyvaultsecretsprovider"
      [] s = "GitOps" -> "gitops"
      [] s = "True" -> "true"
      [] s = "False" -> "false"
      [] s = "AzureCloud" -> "azurecloud"
      [] s = "AzureChinaCloud" -> "azurechinacloud"
      [] s = "AvailabilitySet" -> "availabilityset"
      [] s = "VirtualMachineScaleSets" -> "virtualmachinescalesets"
      [] OTHER -> s

\* a spelling of a profile key that differs from it in letter case only
CaseVariant(k) ==
    CASE k = "omsagent" -> "omsAgent"
      [] k = "httpApplicationRouting" -> "HttpApplicationRouting"
      [] k = "aciConnectorLinux" -> "AciConnectorLinux"
      [] k = "kubeDashboard" -> "KubeDashboard"
      [] k = "azurepolicy" -> "AzurePolicy"
      [] k = "ingressApplicationGateway" -> "IngressApplicationGateway"
      [] k = "ACCSGXDevicePlugin" -> "accsgxdeviceplugin"
      [] k = "openServiceMesh" -> "OpenServiceMesh"
      [] k = "azureKeyvaultSecretsProvider" -> "AzureKeyvaultSecretsProvider"
      [] k = "gitops" -> "GitOps"
      [] OTHER -> k

\* sanitize_loganalytics_ws_resource_id: strip, one leading "/", no trailing "/"
sanitize_loganalytics_ws_resource_id(id) ==
    CASE id = "subscriptions/s1/workspaces/ws1/" -> "/subscriptions/s1/workspaces/ws1"
      [] id = " /subscriptions/s1/workspaces/ws1 " -> "/subscriptions/s1/workspaces/ws1"
      [] OTHER -> id

\* ensure_default_log_analytics_workspace_for_monitoring: the default workspace
ensure_default_log_analytics_workspace_for_monitoring ==
    "/subscriptions/s1/workspaces/DefaultWorkspace"

\* a config value that is a Python str
Str(s) == [type |-> "str", val |-> s]

\* a config value that is a Python bool; val is what str() gives
Bool(b) == [type |-> "bool", val |-> IF b THEN "True" ELSE "False"]

-----------------------------------------------------------------------------
(* Dicts and model objects *)

EmptyDict == [k \in {} |-> TRUE]

\* d[k] = v
Put(d, k, v) == [x \in DOMAIN d \cup {k} |-> IF x = k THEN v ELSE d[x]]

\* d.pop(k), the dict that is left
Without(d, k) == [x \in DOMAIN d \ {k} |-> d[x]]

NoneConfig == [null |-> TRUE, kv |-> EmptyDict]

Config(kv) == [null |-> FALSE, kv |-> kv]

\* ManagedClusterAddonProfile(enabled=..., config=...): identity is server-set
ManagedClusterAddonProfile(enabled, config) ==
    [enabled |-> enabled, config |-> config, identity |-> "None"]

NoneDict == [null |-> TRUE, m |-> EmptyDict]

Dict(m) == [null |-> FALSE, m |-> m]

\* ManagedClusterIngressProfileWebAppRouting(): every attribute None
ManagedClusterIngressProfileWebAppRouting ==
    [null |-> FALSE, enabled |-> "None", dns_zone_resource_id |-> "None"]

NoneWebAppRouting ==
    [null |-> TRUE, enabled |-> "None", dns_zone_resource_id |-> "None"]

\* ManagedClusterIngressProfile(): web_app_routing None
ManagedClusterIngressProfile == [null |-> FALSE, web_app_routing |-> NoneWebAppRouting]

NoneIngressProfile == [null |-> TRUE, web_app_routing |-> NoneWebAppRouting]

NoneServicePrincipalProfile == [null |-> TRUE, client_id |-> "None"]

ServicePrincipalProfile(client_id) == [null |-> FALSE, client_id |-> client_id]

\* Python's str(bool)
PyBool(b) == IF b THEN "True" ELSE "False"

-----------------------------------------------------------------------------
(* _update_addons *)

\* the keyword arguments of _update_addons at their defaults
DefaultOptions ==
    [workspace_resource_id |-> "None",
     enable_msi_auth_for_monitoring |-> FALSE,
     subnet_name |-> "None",
     appgw_name |-> "None",
     appgw_subnet_prefix |-> "None",
     appgw_subnet_cidr |-> "None",
     appgw_id |-> "None",
     appgw_subnet_id |-> "None",
     appgw_watch_namespace |-> "None",
     enable_sgxquotehelper |-> FALSE,
     enable_secret_rotation |-> FALSE,
     disable_secret_rotation |-> FALSE,
     rotation_poll_interval |-> "None",
     dns_zone_resource_id |-> "None"]

\* mutant: the test is "is not None", so "" counts as supplied
Truthy_NotNone(s) == s # "None"

\* Python truth value of an optional string: None and "" are false
Truthy(s) == s \notin {"None", ""}

\* the profile key of a catalog add-on name; virtual-node gets the OS suffix
AddonKey(addon_arg) ==
    IF ADDONS[addon_arg] = CONST_VIRTUAL_NODE_ADDON_NAME
    THEN ADDONS[addon_arg] \o os_type
    ELSE ADDONS[addon_arg]

\* the keys of addon_profiles that equal addon up to case and are not addon
Misspelled(addon_profiles, addon) ==
    {key \in DOMAIN addon_profiles : Lower(key) = Lower(addon) /\ key # addon}

\* mutant: keys that differ in case are left where they are
HonorAddonNames_Keeps(addon_profiles, addon) == addon_profiles

\* "honor addon names defined in Azure CLI": every key that differs from addon
\* in case only is popped and its profile stored under addon.  With several
\* such keys Python keeps the last in dict order; the clusters of this model
\* hold at most one, so the order of the CHOOSE is immaterial.
RECURSIVE HonorAddonNames(_, _)
HonorAddonNames(addon_profiles, addon) ==
    IF Misspelled(addon_profiles, addon) = {}
    THEN addon_profiles
    ELSE LET key == CHOOSE k \in Misspelled(addon_profiles, addon) : TRUE
         IN HonorAddonNames(Put(Without(addon_profiles, key), addon, addon_profiles[key]),
                            addon)

\* mutant: the DNS zone resource id is stored whether supplied or not
WebAppRoutingBranch_AlwaysSetsZone(ingress_profile, enable, o) ==
    LET ip == IF ingress_profile.null THEN ManagedClusterIngressProfile
              ELSE ingress_profile
        war == IF ip.web_app_routing.null THEN ManagedClusterIngressProfileWebAppRouting
               ELSE ip.web_app_routing
    IN [ip EXCEPT !.web_app_routing =
            [war EXCEPT !.enabled = PyBool(enable),
                        !.dns_zone_resource_id = o.dns_zone_resource_id]]

\* the web_application_routing branch: the ingress profile after it
WebAppRoutingBranch(ingress_profile, enable, o) ==
    LET ip == IF ingress_profile.null THEN ManagedClusterIngressProfile
              ELSE ingress_profile
        war == IF ip.web_app_routing.null THEN ManagedClusterIngressProfileWebAppRouting
               ELSE ip.web_app_routing
    IN [ip EXCEPT !.web_app_routing =
            [war EXCEPT !.enabled = PyBool(enable),
                        !.dns_zone_resource_id =
                            IF o.dns_zone_resource_id # "None"
                            THEN o.dns_zone_resource_id ELSE @]]

\* mutant: appgw_subnet_prefix is written after appgw_subnet_cidr
AppgwConfig_PrefixLast(o) ==
    LET c0 == EmptyDict
        c1 == IF o.appgw_name # "None"
              THEN Put(c0, CONST_INGRESS_APPGW_APPLICATION_GATEWAY_NAME, Str(o.appgw_name))
              ELSE c0
        c2 == IF o.appgw_subnet_cidr # "None"
              THEN Put(c1, CONST_INGRESS_APPGW_SUBNET_CIDR, Str(o.appgw_subnet_cidr))
              ELSE c1
        c3 == IF o.appgw_subnet_prefix # "None"
              THEN Put(c2, CONST_INGRESS_APPGW_SUBNET_CIDR, Str(o.appgw_subnet_prefix))
              ELSE c2
        c4 == IF o.appgw_id # "None"
              THEN Put(c3, CONST_INGRESS_APPGW_APPLICATION_GATEWAY_ID, Str(o.appgw_id))
              ELSE c3
        c5 == IF o.appgw_subnet_id # "None"
              THEN Put(c4, CONST_INGRESS_APPGW_SUBNET_ID, Str(o.appgw_subnet_id))
              ELSE c4
    IN IF o.appgw_watch_namespace # "None"
       THEN Put(c5, CONST_INGRESS_APPGW_WATCH_NAMESPACE, Str(o.appgw_watch_namespace))
       ELSE c5

\* the config the ingress-appgw branch builds from the supplied options
AppgwConfig(o) ==
    LET c0 == EmptyDict
        c1 == IF o.appgw_name # "None"
              THEN Put(c0, CONST_INGRESS_APPGW_APPLICATION_GATEWAY_NAME, Str(o.appgw_name))
              ELSE c0
        c2 == IF o.appgw_subnet_prefix # "None"
              THEN Put(c1, CONST_INGRESS_APPGW_SUBNET_CIDR, Str(o.appgw_subnet_prefix))
              ELSE c1
        c3 == IF o.appgw_subnet_cidr # "None"
              THEN Put(c2, CONST_INGRESS_APPGW_SUBNET_CIDR, Str(o.appgw_subnet_cidr))
              ELSE c2
        c4 == IF o.appgw_id # "None"
              THEN Put(c3, CONST_INGRESS_APPGW_APPLICATION_GATEWAY_ID, Str(o.appgw_id))
              ELSE c3
        c5 == IF o.appgw_subnet_id # "None"
              THEN Put(c4, CONST_INGRESS_APPGW_SUBNET_ID, Str(o.appgw_subnet_id))
              ELSE c4
    IN IF o.appgw_watch_namespace # "None"
       THEN Put(c5, CONST_INGRESS_APPGW_WATCH_NAMESPACE, Str(o.appgw_watch_namespace))
       ELSE c5

\* mutant: disable_secret_rotation is not looked at
KeyvaultConfig_IgnoresDisable(o) ==
    LET c0 == Put(Put(EmptyDict, CONST_SECRET_ROTATION_ENABLED, Str("false")),
                  CONST_ROTATION_POLL_INTERVAL, Str("2m"))
        c1 == IF o.enable_secret_rotation
              THEN Put(c0, CONST_SECRET_ROTATION_ENABLED, Str("true")) ELSE c0
    IN IF o.rotation_poll_interval # "None"
       THEN Put(c1, CONST_ROTATION_POLL_INTERVAL, Str(o.rotation_poll_interval))
       ELSE c1

\* the config the azure-keyvault-secrets-provider branch builds
KeyvaultConfig(o) ==
    LET c0 == Put(Put(EmptyDict, CONST_SECRET_ROTATION_ENABLED, Str("false")),
                  CONST_ROTATION_POLL_INTERVAL, Str("2m"))
        c1 == IF o.enable_secret_rotation
              THEN Put(c0, CONST_SECRET_ROTATION_ENABLED, Str("true")) ELSE c0
        c2 == IF o.disable_secret_rotation
              THEN Put(c1, CONST_SECRET_ROTATION_ENABLED, Str("false")) ELSE c1
    IN IF o.rotation_poll_interval # "None"
       THEN Put(c2, CONST_ROTATION_POLL_INTERVAL, Str(o.rotation_poll_interval))
       ELSE c2

\* the value stored under CONST_MONITORING_USING_AAD_MSI_AUTH: the argument
\* enable_msi_auth_for_monitoring itself, a Python bool
MsiAuthConfigValue(o) == Bool(o.enable_msi_auth_for_monitoring)

\* the workspace id the monitoring branch stores: the supplied one, or the
\* default workspace when none is supplied, sanitized
MonitoringWorkspace(workspace_resource_id) ==
    sanitize_loganalytics_ws_resource_id(
        IF Truthy(workspace_resource_id) THEN workspace_resource_id
        ELSE ensure_default_log_analytics_workspace_for_monitoring)

\* mutant: the monitoring branch lacks its already-enabled check
ChecksAlreadyEnabled_NoMonitoring(addon) ==
    addon \in {CONST_VIRTUAL_NODE_ADDON_NAME \o os_type,
               CONST_INGRESS_APPGW_ADDON_NAME,
               CONST_OPEN_SERVICE_MESH_ADDON_NAME,
               CONST_CONFCOM_ADDON_NAME,
               CONST_AZURE_KEYVAULT_SECRETS_PROVIDER_ADDON_NAME}

\* the add-ons whose enable branch refuses an enabled profile
ChecksAlreadyEnabled(addon) ==
    addon \in {CONST_MONITORING_ADDON_NAME,
               CONST_VIRTUAL_NODE_ADDON_NAME \o os_type,
               CONST_INGRESS_APPGW_ADDON_NAME,
               CONST_OPEN_SERVICE_MESH_ADDON_NAME,
               CONST_CONFCOM_ADDON_NAME,
               CONST_AZURE_KEYVAULT_SECRETS_PROVIDER_ADDON_NAME}

\* the enable branch for one add-on key, on the loop state
\* st = [addon_profiles, ingress_profile, workspace_resource_id, err]
EnableBranch(st, addon, o) ==
    LET addon_profiles == st.addon_profiles
        addon_profile == IF addon \in DOMAIN addon_profiles THEN addon_profiles[addon]
                         ELSE ManagedClusterAddonProfile(FALSE, NoneConfig)
        ws == MonitoringWorkspace(st.workspace_resource_id)
        Store(p, w) == [st EXCEPT !.addon_profiles = Put(addon_profiles, addon,
                                                        [p EXCEPT !.enabled = TRUE]),
                                  !.workspace_resource_id = w]
    IN IF ChecksAlreadyEnabled(addon) /\ addon_profile.enabled
       THEN [st EXCEPT !.err = "AlreadyEnabled"]
       ELSE CASE addon = CONST_MONITORING_ADDON_NAME ->
                   Store([addon_profile EXCEPT !.config =
                            Config(Put(Put(EmptyDict,
                                CONST_MONITORING_LOG_ANALYTICS_WORKSPACE_RESOURCE_ID, Str(ws)),
                                CONST_MONITORING_USING_AAD_MSI_AUTH, MsiAuthConfigValue(o)))],
                         ws)
              [] addon = CONST_VIRTUAL_NODE_ADDON_NAME \o os_type ->
                   IF ~Truthy(o.subnet_name)
                   THEN [st EXCEPT !.err = "MissingSubnet"]
                   ELSE Store([addon_profile EXCEPT !.config =
                                Config(Put(EmptyDict, CONST_VIRTUAL_NODE_SUBNET_NAME,
                                           Str(o.subnet_name)))],
                              st.workspace_resource_id)
              [] addon = CONST_INGRESS_APPGW_ADDON_NAME ->
                   Store(ManagedClusterAddonProfile(TRUE, Config(AppgwConfig(o))),
                         st.workspace_resource_id)
              [] addon = CONST_OPEN_SERVICE_MESH_ADDON_NAME ->
                   Store(ManagedClusterAddonProfile(TRUE, Config(EmptyDict)),
                         st.workspace_resource_id)
              [] addon = CONST_CONFCOM_ADDON_NAME ->
                   Store(ManagedClusterAddonProfile(TRUE,
                            Config(Put(EmptyDict, CONST_ACC_SGX_QUOTE_HELPER_ENABLED,
                                       IF o.enable_sgxquotehelper THEN Str("true")
                                       ELSE Str("false")))),
                         st.workspace_resource_id)
              [] addon = CONST_AZURE_KEYVAULT_SECRETS_PROVIDER_ADDON_NAME ->
                   Store(ManagedClusterAddonProfile(TRUE, Config(KeyvaultConfig(o))),
                         st.workspace_resource_id)
              [] OTHER -> Store(addon_profile, st.workspace_resource_id)

\* mutant: an add-on that is not installed is created disabled, whichever it is
DisableBranch_CreatesAny(st, addon) ==
    LET addon_profiles == st.addon_profiles
        p == IF addon \in DOMAIN addon_profiles THEN addon_profiles[addon]
             ELSE ManagedClusterAddonProfile(FALSE, NoneConfig)
    IN [st EXCEPT !.addon_profiles =
            Put(addon_profiles, addon, [p EXCEPT !.config = NoneConfig, !.enabled = FALSE])]

\* mutant: disabling removes the entry from the map
DisableBranch_Pops(st, addon) ==
    LET addon_profiles == st.addon_profiles
    IN IF addon \notin DOMAIN addon_profiles /\ addon # CONST_KUBE_DASHBOARD_ADDON_NAME
       THEN [st EXCEPT !.err = "NotInstalled"]
       ELSE [st EXCEPT !.addon_profiles = Without(addon_profiles, addon)]

\* mutant: disabling clears the config and leaves the enabled flag
DisableBranch_LeavesEnabled(st, addon) ==
    LET addon_profiles == st.addon_profiles
    IN IF addon \notin DOMAIN addon_profiles /\ addon # CONST_KUBE_DASHBOARD_ADDON_NAME
       THEN [st EXCEPT !.err = "NotInstalled"]
       ELSE LET p == IF addon \in DOMAIN addon_profiles THEN addon_profiles[addon]
                     ELSE ManagedClusterAddonProfile(FALSE, NoneConfig)
            IN [st EXCEPT !.addon_profiles =
                    Put(addon_profiles, addon, [p EXCEPT !.config = NoneConfig])]

\* the disable branch for one add-on key
DisableBranch(st, addon) ==
    LET addon_profiles == st.addon_profiles
    IN IF addon \notin DOMAIN addon_profiles /\ addon # CONST_KUBE_DASHBOARD_ADDON_NAME
       THEN [st EXCEPT !.err = "NotInstalled"]
       ELSE LET p == IF addon \in DOMAIN addon_profiles THEN addon_profiles[addon]
                     ELSE ManagedClusterAddonProfile(FALSE, NoneConfig)
            IN [st EXCEPT !.addon_profiles =
                    Put(addon_profiles, addon,
                        [p EXCEPT !.config = NoneConfig, !.enabled = FALSE])]

\* mutant: a token that is no add-on name is skipped
ForAddonArg_SkipsUnknown(st, addon_arg, enable, o) ==
    IF addon_arg = "web_application_routing"
    THEN [st EXCEPT !.ingress_profile = WebAppRoutingBranch(st.ingress_profile, enable, o)]
    ELSE IF addon_arg \notin DOMAIN ADDONS
    THEN st
    ELSE LET addon == AddonKey(addon_arg)
             st1 == [st EXCEPT !.addon_profiles = HonorAddonNames(st.addon_profiles, addon)]
         IN IF enable THEN EnableBranch(st1, addon, o) ELSE DisableBranch(st1, addon)

\* one pass of "for addon_arg in addon_args" over the loop state
ForAddonArg(st, addon_arg, enable, o) ==
    IF addon_arg = "web_application_routing"
    THEN [st EXCEPT !.ingress_profile = WebAppRoutingBranch(st.ingress_profile, enable, o)]
    ELSE IF addon_arg \notin DOMAIN ADDONS
    THEN [st EXCEPT !.err = "InvalidAddon"]
    ELSE LET addon == AddonKey(addon_arg)
             st1 == [st EXCEPT !.addon_profiles = HonorAddonNames(st.addon_profiles, addon)]
         IN IF enable THEN EnableBranch(st1, addon, o) ELSE DisableBranch(st1, addon)

\* the loop over addon_args from position i on; it stops at the first raise
RECURSIVE ForAddonArgs(_, _, _, _, _)
ForAddonArgs(st, addon_args, i, enable, o) ==
    IF i > Len(addon_args) \/ st.err # "ok"
    THEN st
    ELSE ForAddonArgs(ForAddonArg(st, addon_args[i], enable, o), addon_args, i + 1,
                      enable, o)

\* mutant: the loop writes to a new dict, whatever the instance holds
LocalAddonProfiles_Fresh(inst) == EmptyDict

\* addon_profiles = instance.addon_profiles or {}: the dict the loop writes to
LocalAddonProfiles(inst) ==
    IF inst.addon_profiles.null THEN EmptyDict ELSE inst.addon_profiles.m

\* whether that dict is the instance's own (None and {} are false, so "or"
\* yields a fresh dict the instance does not see until line 1866)
SharesAddonProfiles(inst) ==
    ~inst.addon_profiles.null /\ DOMAIN inst.addon_profiles.m # {}

\* mutant: the service-principal profile is left as it was read
ClearedServicePrincipalProfile_Kept(sp) == sp

\* the service-principal profile _update_addons leaves: None
ClearedServicePrincipalProfile(sp) == NoneServicePrincipalProfile

\* _update_addons(instance, addons, enable, **o): [instance, err], instance
\* being the object as the call leaves it, also when it raises
update_addons(inst, addon_args, enable, o) ==
    LET st == ForAddonArgs([addon_profiles |-> LocalAddonProfiles(inst),
                            ingress_profile |-> inst.ingress_profile,
                            workspace_resource_id |-> o.workspace_resource_id,
                            err |-> "ok"],
                           addon_args, 1, enable, o)
    IN IF st.err = "ok"
       THEN [instance |-> [addon_profiles |-> Dict(st.addon_profiles),
                           ingress_profile |-> st.ingress_profile,
                           service_principal_profile |->
                               ClearedServicePrincipalProfile(inst.service_principal_profile)],
             err |-> "ok"]
       ELSE [instance |-> [addon_profiles |->
                               IF SharesAddonProfiles(inst) THEN Dict(st.addon_profiles)
                               ELSE inst.addon_profiles,
                           ingress_profile |-> st.ingress_profile,
                           service_principal_profile |-> inst.service_principal_profile],
             err |-> st.err]

-----------------------------------------------------------------------------
(* Inputs *)

\* a token that is no add-on name
InvalidToken == "bogus"

\* the sets of add-on names one session draws its tokens from: every catalog
\* name alone, and monitoring together with the dashboard
Pools ==
    {{n} : n \in DOMAIN ADDONS} \cup {{"monitoring", "kube-dashboard"}}

\* the tokens of a session over pool p: its add-on names, and the invalid
\* token when it has one add-on
TokensOf(p) == IF Cardinality(p) = 1 THEN p \cup {InvalidToken} ELSE p

\* addons.split(','): never empty
AddonLists(p) == UNION {[1..n -> TokensOf(p)] : n \in 1..MaxTokens}

\* one option set that lets add-on name n be enabled with a config of its own
TypicalOptions(n) ==
    CASE n = "monitoring" ->
           [DefaultOptions EXCEPT !.workspace_resource_id = "subscriptions/s1/workspaces/ws1/",
                                  !.enable_msi_auth_for_monitoring = TRUE]
      [] n = "virtual-node" -> [DefaultOptions EXCEPT !.subnet_name = "subnet1"]
      [] n = "ingress-appgw" ->
           [DefaultOptions EXCEPT !.appgw_name = "gw1", !.appgw_id = "gwid1",
                                  !.appgw_subnet_id = "snid1",
                                  !.appgw_watch_namespace = "ns1"]
      [] n = "confcom" -> [DefaultOptions EXCEPT !.enable_sgxquotehelper = TRUE]
      [] n = "azure-keyvault-secrets-provider" ->
           [DefaultOptions EXCEPT !.enable_secret_rotation = TRUE,
                                  !.rotation_poll_interval = "5m"]
      [] n = "web_application_routing" ->
           [DefaultOptions EXCEPT !.dns_zone_resource_id = "zone1"]
      [] OTHER -> DefaultOptions

\* option sets that matter to add-on name n, besides the defaults
OptionsFor(n) ==
    CASE n = "monitoring" ->
           {[DefaultOptions EXCEPT !.workspace_resource_id = w,
                                   !.enable_msi_auth_for_monitoring = m] :
                w \in {"/subscriptions/s1/workspaces/ws1",
                       "subscriptions/s1/workspaces/ws1/"},
                m \in BOOLEAN}
           \cup {[DefaultOptions EXCEPT !.enable_msi_auth_for_monitoring = TRUE]}
      [] n = "virtual-node" ->
           {[DefaultOptions EXCEPT !.subnet_name = x] : x \in {"", "subnet1"}}
      [] n = "ingress-appgw" ->
           {[DefaultOptions EXCEPT !.appgw_name = "gw1"],
            [DefaultOptions EXCEPT !.appgw_subnet_prefix = "10.0.0.0/16"],
            [DefaultOptions EXCEPT !.appgw_subnet_cidr = "10.1.0.0/16"],
            [DefaultOptions EXCEPT !.appgw_subnet_prefix = "10.0.0.0/16",
                                   !.appgw_subnet_cidr = "10.1.0.0/16"],
            TypicalOptions(n)}
      [] n = "confcom" ->
           {[DefaultOptions EXCEPT !.enable_sgxquotehelper = TRUE]}
      [] n = "azure-keyvault-secrets-provider" ->
           {[DefaultOptions EXCEPT !.enable_secret_rotation = e,
                                   !.disable_secret_rotation = d,
                                   !.rotation_poll_interval = i] :
                e \in BOOLEAN, d \in BOOLEAN, i \in {"None", "5m"}}
      [] n = "web_application_routing" ->
           {[DefaultOptions EXCEPT !.dns_zone_resource_id = "zone1"]}
      [] OTHER -> {}

\* the option sets that go with add-on list l in a session over pool p: every
\* set that matters to the add-on when the list is that add-on alone, the
\* defaults and the typical sets otherwise
OptionSets(p, l) ==
    IF Len(l) = 1 /\ l[1] \in p /\ Cardinality(p) = 1
    THEN {DefaultOptions} \cup OptionsFor(l[1])
    ELSE {DefaultOptions} \cup {TypicalOptions(n) : n \in p \ {"kube-dashboard"}}

\* add-on profiles a cluster read from the service may hold
InitialProfiles ==
    {[enabled |-> FALSE, config |-> NoneConfig, identity |-> "None"],
     [enabled |-> TRUE, config |-> Config(EmptyDict), identity |-> "identity1"]}

\* dicts over some of the keys ks, each key spelled canonically or not
InitialDicts(ks) ==
    UNION {UNION {{[k \in {sp[x] : x \in S} |->
                        pf[CHOOSE x \in S : sp[x] = k]] :
                     pf \in [S -> InitialProfiles]} :
                  sp \in {f \in [S -> ks \cup {CaseVariant(x) : x \in ks}] :
                            \A x \in S : f[x] \in {x, CaseVariant(x)}}} :
           S \in SUBSET ks}

InitialIngressProfiles(p) ==
    IF "web_application_routing" \in p
    THEN {NoneIngressProfile,
          ManagedClusterIngressProfile,
          [ManagedClusterIngressProfile EXCEPT !.web_app_routing =
              [null |-> FALSE, enabled |-> "True", dns_zone_resource_id |-> "zone0"]]}
    ELSE {NoneIngressProfile}

\* the clusters client.get may return to a session over pool p, with a
\* service principal of its own or the managed identity ("msi")
InitialClusters(p, client_ids) ==
    {[addon_profiles |-> ap, ingress_profile |-> ip,
      service_principal_profile |-> ServicePrincipalProfile(id)] :
        ap \in {NoneDict}
               \cup {Dict(d) : d \in InitialDicts({AddonKey(n) :
                                        n \in p \ {"web_application_routing"}})},
        ip \in InitialIngressProfiles(p),
        id \in client_ids}

-----------------------------------------------------------------------------
(* State *)

NoCall == [addons |-> <<>>, enable |-> FALSE, o |-> DefaultOptions]

NoCluster ==
    [addon_profiles |-> NoneDict, ingress_profile |-> NoneIngressProfile,
     service_principal_profile |-> NoneServicePrincipalProfile]

NoCmd == [name |-> "none"]

NoWait ==
    [pc |-> "idle", delay |-> 0, x |-> 0, calls |-> 0, sleeps |-> <<>>,
     last |-> "none", ret |-> "None", raised |-> "None"]

Init ==
    /\ pool \in Pools
    /\ instance \in InitialClusters(pool, {"sp-client-id"})
    /\ pre = instance
    /\ call = NoCall
    /\ ret = "none"
    /\ remote = NoCluster
    /\ cmd = NoCmd
    /\ wait = NoWait

\* a call of _update_addons on the object in hand
UpdateAddons ==
    \E addon_args \in AddonLists(pool), enable \in BOOLEAN :
      \E o \in IF enable THEN OptionSets(pool, addon_args) ELSE {DefaultOptions} :
        /\ \E r \in {update_addons(instance, addon_args, enable, o)} :
              /\ instance' = r.instance
              /\ ret' = r.err
        /\ pre' = instance
        /\ call' = [addons |-> addon_args, enable |-> enable, o |-> o]
        /\ UNCHANGED <<pool, remote, cmd, wait>>

Next == UpdateAddons

Spec == Init /\ [][Next]_vars


-----------------------------------------------------------------------------
(* _delete_role_assignments *)

\* range(0, 10): the number of attempts
MaxAttempts == 10

\* the default of the delay argument
DefaultDelay == 2

\* what one call of delete_role_assignments can do: return, or raise a
\* CloudError (not found, or any other remote error), a CLIError, or an
\* exception of another class
DeleteOutcomes ==
    {"ok", "CloudError:NotFound", "CloudError:Forbidden", "CLIError", "OtherError"}

\* mutant: a CLIError is swallowed like a CloudError
CaughtAndLogged_AlsoCLIError(outcome) ==
    outcome \in {"CloudError:NotFound", "CloudError:Forbidden", "CLIError"}

\* except CloudError: logged, then the loop goes on to time.sleep
CaughtAndLogged(outcome) == outcome \in {"CloudError:NotFound", "CloudError:Forbidden"}

\* mutant: the sleep lacks its base delay
SleepSeconds_NoBase(delay, x) == delay * x

\* time.sleep(delay + delay * x)
SleepSeconds(delay, x) == delay + delay * x

\* mutant: a successful delete does not break out of the loop
LoopPass_NoBreak(w, outcome) ==
    LET called == [w EXCEPT !.calls = @ + 1, !.last = outcome]
    IN IF outcome # "ok" /\ ~CaughtAndLogged(outcome)
       THEN [called EXCEPT !.pc = "raised", !.raised = outcome]
       ELSE LET slept == IF outcome = "ok" THEN [called EXCEPT !.x = @ + 1]
                         ELSE [called EXCEPT
                                 !.sleeps = Append(@, SleepSeconds(w.delay, w.x)),
                                 !.x = @ + 1]
            IN IF slept.x = MaxAttempts
               THEN [slept EXCEPT !.pc = "returned",
                                  !.ret = IF outcome = "ok" THEN "True" ELSE "False"]
               ELSE slept

\* one pass of "for x in range(0, 10)" with the outcome of its delete call,
\* up to the return when the pass ends the function
LoopPass(w, outcome) ==
    LET called == [w EXCEPT !.calls = @ + 1, !.last = outcome]
    IN IF outcome = "ok"
       THEN [called EXCEPT !.pc = "returned", !.ret = "True"]
       ELSE IF ~CaughtAndLogged(outcome)
       THEN [called EXCEPT !.pc = "raised", !.raised = outcome]
       ELSE LET slept == [called EXCEPT
                            !.sleeps = Append(@, SleepSeconds(w.delay, w.x)),
                            !.x = @ + 1]
            IN IF slept.x = MaxAttempts
               THEN [slept EXCEPT !.pc = "returned", !.ret = "False"]
               ELSE slept

\* _delete_role_assignments is entered with this delay
DeleteRoleAssignments ==
    \E delay \in 1..MaxDelay :
        /\ wait.pc = "idle"
        /\ wait' = [wait EXCEPT !.pc = "loop", !.delay = delay]
        /\ UNCHANGED <<pool, instance, pre, call, ret, remote, cmd>>

\* one pass of its loop
DeleteAttempt ==
    \E outcome \in DeleteOutcomes :
        /\ wait.pc = "loop"
        /\ wait.x < MaxAttempts
        /\ wait' = LoopPass(wait, outcome)
        /\ UNCHANGED <<pool, instance, pre, call, ret, remote, cmd>>

\* the role-assignment deletion wait on its own
InitWait ==
    /\ pool = {}
    /\ instance = NoCluster
    /\ pre = NoCluster
    /\ call = NoCall
    /\ ret = "none"
    /\ remote = NoCluster
    /\ cmd = NoCmd
    /\ wait = NoWait

NextWait == DeleteRoleAssignments \/ DeleteAttempt

SpecWait == InitWait /\ [][NextWait]_vars

-----------------------------------------------------------------------------
(* _ensure_aks_acr_role_assignment *)

\* the service principals or identities a registry is attached to
ClientIds == {"sp-client-id", "kubelet-identity"}

\* the messages of the two CLIErrors of _ensure_aks_acr_role_assignment
CouldNotDelete == "CLIError:Could not delete role assignments for ACR"

CouldNotCreate == "CLIError:Could not create a role assignment for ACR"

\* no call of _ensure_aks_acr_role_assignment yet
NoAcrCall ==
    [name |-> "none", detach |-> FALSE, client_id |-> "None", pc |-> "idle",
     adds |-> 0, err |-> "None"]

\* mutant: the value _delete_role_assignments returns is not looked at
AfterDelete_IgnoresResult(c, w) ==
    IF w.pc = "raised"
    THEN [c EXCEPT !.pc = "raised", !.err = w.raised]
    ELSE [c EXCEPT !.pc = "returned"]

\* the detach branch once _delete_role_assignments has ended: its exception
\* propagates, False raises the CLIError, True returns
AfterDelete(c, w) ==
    IF w.pc = "raised"
    THEN [c EXCEPT !.pc = "raised", !.err = w.raised]
    ELSE IF w.ret = "False"
    THEN [c EXCEPT !.pc = "raised", !.err = CouldNotDelete]
    ELSE [c EXCEPT !.pc = "returned"]

\* _ensure_aks_acr_role_assignment is entered: with detach it calls
\* _delete_role_assignments, which runs with its default delay; without, it
\* goes on to add_role_assignment
EnsureAksAcrRoleAssignment ==
    \E detach \in BOOLEAN, client_id \in ClientIds :
        /\ cmd.pc = "idle"
        /\ cmd' = [cmd EXCEPT !.name = "_ensure_aks_acr_role_assignment",
                              !.detach = detach, !.client_id = client_id,
                              !.pc = IF detach THEN "deleting" ELSE "adding"]
        /\ wait' = IF detach THEN [wait EXCEPT !.pc = "loop", !.delay = DefaultDelay]
                   ELSE wait
        /\ UNCHANGED <<pool, instance, pre, call, ret, remote>>

\* _delete_role_assignments has ended and the detach branch ends
EnsureDetachEnds ==
    /\ cmd.pc = "deleting"
    /\ wait.pc \in {"returned", "raised"}
    /\ cmd' = AfterDelete(cmd, wait)
    /\ UNCHANGED <<pool, instance, pre, call, ret, remote, wait>>

\* the attach branch: add_role_assignment returns true or false
EnsureAttach ==
    \E added \in BOOLEAN :
        /\ cmd.pc = "adding"
        /\ cmd' = [cmd EXCEPT !.adds = @ + 1,
                              !.pc = IF added THEN "returned" ELSE "raised",
                              !.err = IF added THEN @ ELSE CouldNotCreate]
        /\ UNCHANGED <<pool, instance, pre, call, ret, remote, wait>>

InitAcr ==
    /\ pool = {}
    /\ instance = NoCluster
    /\ pre = NoCluster
    /\ call = NoCall
    /\ ret = "none"
    /\ remote = NoCluster
    /\ cmd = NoAcrCall
    /\ wait = NoWait

NextAcr == EnsureAksAcrRoleAssignment \/ DeleteAttempt \/ EnsureDetachEnds \/ EnsureAttach

SpecAcr == InitAcr /\ [][NextAcr]_vars

-----------------------------------------------------------------------------
(* aks_enable_addons and aks_disable_addons *)

\* a config value as the request carries it: config is a map of strings, and
\* the serializer writes any other value as str() of it
Serialized(v) == Str(v.val)

\* the cluster the service stores after a create-or-update with this body: the
\* add-on and ingress profiles of the body; the service keeps its own record
\* of the service principal
Stored(cluster, body) ==
    [addon_profiles |->
        [body.addon_profiles EXCEPT !.m =
            [k \in DOMAIN body.addon_profiles.m |->
                [body.addon_profiles.m[k] EXCEPT !.config.kv =
                    [c \in DOMAIN body.addon_profiles.m[k].config.kv |->
                        Serialized(body.addon_profiles.m[k].config.kv[c])]]]],
     ingress_profile |-> body.ingress_profile,
     service_principal_profile |-> cluster.service_principal_profile]

\* key in instance.addon_profiles and instance.addon_profiles[key].enabled
EnabledIn(inst, key) ==
    key \in DOMAIN inst.addon_profiles.m /\ inst.addon_profiles.m[key].enabled

\* the monitoring profile says MSI auth: the key is in its config and
\* str(value).lower() == 'true'
UsesMsiAuth(inst) ==
    LET config == inst.addon_profiles.m[CONST_MONITORING_ADDON_NAME].config
    IN /\ CONST_MONITORING_USING_AAD_MSI_AUTH \in DOMAIN config.kv
       /\ Lower(config.kv[CONST_MONITORING_USING_AAD_MSI_AUTH].val) = "true"

\* the condition under which aks_disable_addons removes the data collection
\* rule association first; a TypeError in it (no profile map, no config) is
\* swallowed and counts as false
RemovesDcrAssociation(inst, addon_args) ==
    /\ addon_args = <<"monitoring">>
    /\ ~inst.addon_profiles.null
    /\ EnabledIn(inst, CONST_MONITORING_ADDON_NAME)
    /\ ~inst.addon_profiles.m[CONST_MONITORING_ADDON_NAME].config.null
    /\ UsesMsiAuth(inst)

NotSubmitted == [sent |-> FALSE, body |-> NoCluster]

\* sdk_no_wait(no_wait, client.begin_create_or_update, ...): the request is
\* sent and the poller returned to the caller as it is; with no_wait the
\* poller was built with polling=False.  The handler itself never waits.
sdk_no_wait(no_wait) ==
    [log |-> <<"create_or_update">>,
     result |-> IF no_wait THEN "poller:no_polling" ELSE "poller"]

\* LongRunningOperation(cmd.cli_ctx)(client.begin_create_or_update(...)): the
\* request is sent, the operation awaited, the cluster it produced returned
LongRunningOperation ==
    [log |-> <<"create_or_update", "wait">>, result |-> "cluster"]

\* mutant: no_wait is honoured although role assignments follow
SubmitFor_HonoursNoWait(need_post_creation_role_assignment, no_wait) ==
    IF need_post_creation_role_assignment /\ ~no_wait
    THEN LongRunningOperation
    ELSE sdk_no_wait(no_wait)

\* mutant: the request is sent again when role assignments follow
SubmitFor_Resubmits(need_post_creation_role_assignment, no_wait) ==
    IF need_post_creation_role_assignment
    THEN [LongRunningOperation EXCEPT !.log = <<"create_or_update">> \o @]
    ELSE sdk_no_wait(no_wait)

\* how aks_enable_addons submits the cluster
SubmitFor(need_post_creation_role_assignment, no_wait) ==
    IF need_post_creation_role_assignment
    THEN LongRunningOperation
    ELSE sdk_no_wait(no_wait)

\* mutant: the data collection rule association is removed after the
\* reconciliation
StepsToUpdate_RemovesAfter(removes) ==
    <<"get", "update_addons">>
        \o (IF removes THEN <<"remove_dcr_association">> ELSE <<>>)

\* the steps of aks_disable_addons up to and including its call of
\* _update_addons
StepsToUpdate(removes) ==
    <<"get">> \o (IF removes THEN <<"remove_dcr_association">> ELSE <<>>)
        \o <<"update_addons">>

\* the record a handler leaves when it raised e before any request
Raised(handler, inst, ret_, cluster, no_wait, log, e) ==
    [instance |-> inst, ret |-> ret_, remote |-> cluster,
     cmd |-> [name |-> handler, no_wait |-> no_wait, log |-> log,
              submitted |-> NotSubmitted, err |-> e, result |-> "none",
              given |-> {}]]

\* aks_disable_addons(addons, no_wait) on the stored cluster: what it leaves
aks_disable_addons(cluster, addon_args, no_wait) ==
    LET got == cluster
        r == update_addons(got, addon_args, FALSE, DefaultOptions)
        log == StepsToUpdate(RemovesDcrAssociation(got, addon_args))
        sent == sdk_no_wait(no_wait)
    IN IF r.err # "ok"
       THEN Raised("aks_disable_addons", r.instance, r.err, cluster, no_wait, log, r.err)
       ELSE [instance |-> r.instance, ret |-> "ok", remote |-> Stored(cluster, r.instance),
             cmd |-> [name |-> "aks_disable_addons", no_wait |-> no_wait,
                      log |-> log \o sent.log,
                      submitted |-> [sent |-> TRUE, body |-> r.instance],
                      err |-> "ok",
                      result |-> sent.result,
                      given |-> {}]]

\* mutant: MSI auth is not checked against the cluster's identity
MonitoringCheck_NoMsiCheck(inst, msi_auth) ==
    IF ~EnabledIn(inst, CONST_MONITORING_ADDON_NAME)
    THEN "none"
    ELSE IF inst.addon_profiles.m[CONST_MONITORING_ADDON_NAME].config.null
    THEN "TypeError"
    ELSE IF UsesMsiAuth(inst)
    THEN "ensure_container_insights:dcr"
    ELSE "ensure_container_insights:legacy"

\* what aks_enable_addons does about monitoring once _update_addons has
\* returned inst: nothing, an error, or one of the two calls of
\* ensure_container_insights_for_monitoring.  A profile without config makes
\* the "in" test raise TypeError.
MonitoringCheck(inst, msi_auth) ==
    IF ~EnabledIn(inst, CONST_MONITORING_ADDON_NAME)
    THEN "none"
    ELSE IF inst.addon_profiles.m[CONST_MONITORING_ADDON_NAME].config.null
    THEN "TypeError"
    ELSE IF UsesMsiAuth(inst)
    THEN IF ~msi_auth
         THEN "ArgumentUsageError"
         ELSE "ensure_container_insights:dcr"
    ELSE "ensure_container_insights:legacy"

\* the role-assignment calls that follow the awaited create-or-update, in
\* the order of the code
RoleAssignments(monitoring, ingress_appgw, virtual_node, cloud_name, vnet_subnet_id) ==
    (IF monitoring /\ Lower(cloud_name) = "azurecloud"
     THEN <<"add_monitoring_role_assignment">> ELSE <<>>)
    \o (IF ingress_appgw
        THEN <<"add_ingress_appgw_addon_role_assignment">> ELSE <<>>)
    \o (IF virtual_node /\ vnet_subnet_id # ""
        THEN <<"add_virtual_node_role_assignment">> ELSE <<>>)

\* the steps of aks_enable_addons after _update_addons has returned inst;
\* msi_auth was read before the call, cloud_name and vnet_subnet_id (of the
\* first agent pool of the result) are what the environment says
AfterUpdate(cluster, inst, msi_auth, no_wait, cloud_name, vnet_subnet_id, log) ==
    LET check == MonitoringCheck(inst, msi_auth)
        monitoring == EnabledIn(inst, CONST_MONITORING_ADDON_NAME)
        ingress_appgw_addon_enabled == EnabledIn(inst, CONST_INGRESS_APPGW_ADDON_NAME)
        enable_virtual_node ==
            (CONST_VIRTUAL_NODE_ADDON_NAME \o os_type) \in DOMAIN inst.addon_profiles.m
        need_post_creation_role_assignment ==
            monitoring \/ ingress_appgw_addon_enabled \/ enable_virtual_node
        sent == SubmitFor(need_post_creation_role_assignment, no_wait)
        roles == IF need_post_creation_role_assignment
                 THEN RoleAssignments(monitoring, ingress_appgw_addon_enabled,
                                      enable_virtual_node, cloud_name, vnet_subnet_id)
                 ELSE <<>>
    IN IF check \in {"TypeError", "ArgumentUsageError"}
       THEN Raised("aks_enable_addons", inst, "ok", cluster, no_wait, log, check)
       ELSE [instance |-> inst, ret |-> "ok", remote |-> Stored(cluster, inst),
             cmd |-> [name |-> "aks_enable_addons", no_wait |-> no_wait,
                      log |-> log \o (IF check = "none" THEN <<>> ELSE <<check>>)
                                  \o sent.log \o roles,
                      submitted |-> [sent |-> TRUE, body |-> inst],
                      err |-> "ok",
                      result |-> sent.result,
                      given |-> IF roles = <<>> THEN {} ELSE {sent.result}]]

\* mutant: the client id is read after _update_addons has returned
aks_enable_addons_ReadsAuthAfter(cluster, addon_args, o, no_wait, cloud_name, vnet_subnet_id) ==
    LET got == cluster
        r == update_addons(got, addon_args, TRUE, o)
        msi_auth == r.instance.service_principal_profile.client_id = "msi"
    IN IF r.err # "ok"
       THEN Raised("aks_enable_addons", r.instance, r.err, cluster, no_wait,
                   <<"get", "update_addons">>, r.err)
       ELSE AfterUpdate(cluster, r.instance, msi_auth, no_wait, cloud_name,
                        vnet_subnet_id, <<"get", "update_addons">>)

\* aks_enable_addons(addons, **o, no_wait) on the stored cluster
aks_enable_addons(cluster, addon_args, o, no_wait, cloud_name, vnet_subnet_id) ==
    LET got == cluster
        msi_auth == got.service_principal_profile.client_id = "msi"
        r == update_addons(got, addon_args, TRUE, o)
    IN IF r.err # "ok"
       THEN Raised("aks_enable_addons", r.instance, r.err, cluster, no_wait,
                   <<"get", "update_addons">>, r.err)
       ELSE AfterUpdate(cluster, r.instance, msi_auth, no_wait, cloud_name,
                        vnet_subnet_id, <<"get", "update_addons">>)

\* cmd.cli_ctx.cloud.name; it is read only when monitoring is enabled
CloudNames(p) ==
    IF p = {"monitoring"} THEN {"AzureCloud", "AzureChinaCloud"} ELSE {"AzureCloud"}

\* result.agent_pool_profiles[0].vnet_subnet_id; it is read only when the
\* virtual-node profile is there
VnetSubnetIds(p) ==
    IF p = {"virtual-node"} THEN {"", "vnet1/subnets/default"}
    ELSE IF "virtual-node" \in p THEN {"vnet1/subnets/default"}
    ELSE {""}

\* the pools of the command sessions: the add-ons aks_enable_addons treats
\* apart, one it does not, the token that is no profile, and two of the
\* former each together with the latter
PoolsCmd ==
    {{"monitoring"}, {"virtual-node"}, {"ingress-appgw"}, {"kube-dashboard"},
     {"web_application_routing"}, {"monitoring", "kube-dashboard"},
     {"virtual-node", "kube-dashboard"}}

\* service_principal_profile.client_id of the cluster of a session; the
\* handlers read it only to decide MSI auth for monitoring
ClientIdsCmd(p) ==
    IF "monitoring" \in p THEN {"msi", "sp-client-id"} ELSE {"sp-client-id"}

\* the command handlers start from the cluster the service stores
InitCmd ==
    /\ pool \in PoolsCmd
    /\ remote \in InitialClusters(pool, ClientIdsCmd(pool))
    /\ instance = remote
    /\ pre = remote
    /\ call = NoCall
    /\ ret = "none"
    /\ cmd = [name |-> "none", no_wait |-> FALSE, log |-> <<>>,
              submitted |-> NotSubmitted, err |-> "ok", result |-> "none",
              given |-> {}]
    /\ wait = NoWait

\* az aks disable-addons
AksDisableAddons ==
    \E addon_args \in AddonLists(pool), no_wait \in BOOLEAN :
        /\ \E r \in {aks_disable_addons(remote, addon_args, no_wait)} :
              /\ instance' = r.instance
              /\ ret' = r.ret
              /\ remote' = r.remote
              /\ cmd' = r.cmd
        /\ pre' = remote
        /\ call' = [addons |-> addon_args, enable |-> FALSE, o |-> DefaultOptions]
        /\ UNCHANGED <<pool, wait>>

\* az aks enable-addons; the handler does not pass disable_secret_rotation
AksEnableAddons ==
    \E addon_args \in AddonLists(pool), no_wait \in BOOLEAN,
       cloud_name \in CloudNames(pool), vnet_subnet_id \in VnetSubnetIds(pool) :
      \E o \in {x \in OptionSets(pool, addon_args) : ~x.disable_secret_rotation} :
        /\ \E r \in {aks_enable_addons(remote, addon_args, o, no_wait, cloud_name,
                                       vnet_subnet_id)} :
              /\ instance' = r.instance
              /\ ret' = r.ret
              /\ remote' = r.remote
              /\ cmd' = r.cmd
        /\ pre' = remote
        /\ call' = [addons |-> addon_args, enable |-> TRUE, o |-> o]
        /\ UNCHANGED <<pool, wait>>

NextCmd == AksEnableAddons \/ AksDisableAddons

SpecCmd == InitCmd /\ [][NextCmd]_vars

-----------------------------------------------------------------------------
(* aks_upgrade *)

\* the version get_cluster_snapshot_by_snapshot_id reports for the snapshot
SnapshotVersion == "1.26"

\* the number of agent pools below which a cluster is a legacy cluster
LegacyMaxAgentPools == 8

\* the confirmation prompts of aks_upgrade, by what they ask
Prompts ==
    {"prompt:upgrade", "prompt:node_image", "prompt:legacy_control_plane",
     "prompt:all_nodepools", "prompt:control_plane_only"}

\* the prompt as the user sees it: none with --yes
Shown(yes, msg) == IF yes THEN <<>> ELSE <<msg>>

\* mutant: --yes alone decides, the answer is not looked at
Confirmed_AnswerIgnored(yes, answer) == TRUE

\* the negation of "not yes and not prompt_y_n(msg, default='n')"
Confirmed(yes, answer) == yes \/ answer

\* mutant: control_plane_only is honoured on a legacy cluster too
UpgradeAll_ControlPlaneOnly(legacy, control_plane_only) == ~control_plane_only

\* upgrade_all: the node pools are upgraded with the control plane on a
\* legacy cluster, and elsewhere unless control_plane_only is given
UpgradeAll(legacy, control_plane_only) == legacy \/ ~control_plane_only

\* the clusters client.get may return: agent pools of either type, each
\* created from a snapshot, a legacy cluster or not
UpgradeClusters ==
    {[kubernetes_version |-> "1.25",
      max_agent_pools |-> m,
      agent_pool_profiles |-> ps,
      service_principal_profile |-> ServicePrincipalProfile("sp-client-id")] :
        m \in {LegacyMaxAgentPools - 1, LegacyMaxAgentPools},
        ps \in UNION {[1..n -> [name : {"nodepool"},
                                type : {"VirtualMachineScaleSets", "AvailabilitySet"},
                                orchestrator_version : {"1.25"},
                                creation_data : {"snapshot0"}]] : n \in 0..MaxPools}}

\* the arguments of aks_upgrade
UpgradeArgs ==
    [kubernetes_version : {"", "1.26"},
     control_plane_only : BOOLEAN,
     no_wait : BOOLEAN,
     node_image_only : BOOLEAN,
     cluster_snapshot_id : {"None", "snapshot1"},
     yes : BOOLEAN]

NoUpgradeArgs ==
    [kubernetes_version |-> "", control_plane_only |-> FALSE, no_wait |-> FALSE,
     node_image_only |-> FALSE, cluster_snapshot_id |-> "None", yes |-> FALSE]

\* no create-or-update request was sent
NoUpgradeBody ==
    [kubernetes_version |-> "None", max_agent_pools |-> 0,
     agent_pool_profiles |-> <<>>,
     service_principal_profile |-> NoneServicePrincipalProfile]

\* no call of aks_upgrade yet
NoUpgrade ==
    [name |-> "none", args |-> NoUpgradeArgs, answers |-> <<FALSE, FALSE>>,
     log |-> <<>>, result |-> "none", err |-> "ok", body |-> NoUpgradeBody]

\* aks_upgrade on the stored cluster with arguments a; answers[k] is what
\* the user answers to the k-th prompt shown (a run shows two at most).
\* body tells what the create-or-update request carried, if one was sent.
aks_upgrade(cluster, a, answers) ==
    LET Done(log, result, err, body) ==
            [name |-> "aks_upgrade", args |-> a, answers |-> answers, log |-> log,
             result |-> result, err |-> err, body |-> body]
        pools == cluster.agent_pool_profiles
        log0 == Shown(a.yes, "prompt:upgrade")
        log1 == log0 \o <<"get">>
        vmas_cluster ==
            \E i \in DOMAIN pools : Lower(pools[i].type) = "availabilityset"
        \* the node-image-only branch
        log2 == log1 \o Shown(a.yes, "prompt:node_image")
        \* the Kubernetes upgrade branch
        kubernetes_version ==
            IF Truthy(a.cluster_snapshot_id) THEN SnapshotVersion
            ELSE a.kubernetes_version
        log3 == log1 \o (IF Truthy(a.cluster_snapshot_id)
                         THEN <<"get_cluster_snapshot">> ELSE <<>>)
        legacy == cluster.max_agent_pools < LegacyMaxAgentPools \/ vmas_cluster
        msg == IF legacy
               THEN IF a.control_plane_only
                    THEN Shown(a.yes, "prompt:legacy_control_plane") ELSE <<>>
               ELSE IF ~a.control_plane_only
                    THEN Shown(a.yes, "prompt:all_nodepools")
                    ELSE Shown(a.yes, "prompt:control_plane_only")
        prompted == legacy => a.control_plane_only
        upgrade_all == UpgradeAll(legacy, a.control_plane_only)
        instance_ ==
            [cluster EXCEPT
                !.kubernetes_version = kubernetes_version,
                !.agent_pool_profiles =
                    IF upgrade_all
                    THEN [i \in DOMAIN pools |->
                            [pools[i] EXCEPT !.orchestrator_version = kubernetes_version,
                                             !.creation_data = "None"]]
                    ELSE @,
                !.service_principal_profile = NoneServicePrincipalProfile]
    IN IF ~Confirmed(a.yes, answers[1])
       THEN Done(log0, "None", "ok", NoUpgradeBody)
       ELSE IF a.kubernetes_version # "" /\ a.node_image_only
       THEN Done(log1, "none", "CLIError:Conflicting flags", NoUpgradeBody)
       ELSE IF a.node_image_only
       THEN IF ~Confirmed(a.yes, answers[2])
            THEN Done(log2, "None", "ok", NoUpgradeBody)
            ELSE IF pools # <<>> /\ vmas_cluster
            THEN Done(log2, "none", "CLIError:not VirtualMachineScaleSets", NoUpgradeBody)
            ELSE Done(log2 \o [i \in DOMAIN pools |-> "upgrade_node_image_version"]
                           \o <<"get">>,
                      "cluster", "ok", NoUpgradeBody)
       ELSE IF prompted /\ ~Confirmed(a.yes, answers[2])
       THEN Done(log3 \o msg, "None", "ok", NoUpgradeBody)
       ELSE Done(log3 \o msg \o sdk_no_wait(a.no_wait).log,
                 sdk_no_wait(a.no_wait).result, "ok", instance_)

\* az aks upgrade on the stored cluster
AksUpgrade ==
    \E a \in UpgradeArgs, answers \in [1..2 -> BOOLEAN] :
        /\ cmd' = aks_upgrade(remote, a, answers)
        /\ UNCHANGED <<pool, instance, pre, call, ret, remote, wait>>

InitUpgrade ==
    /\ pool = {}
    /\ instance = NoCluster
    /\ pre = NoCluster
    /\ call = NoCall
    /\ ret = "none"
    /\ remote \in UpgradeClusters
    /\ cmd = NoUpgrade
    /\ wait = NoWait

NextUpgrade == AksUpgrade

SpecUpgrade == InitUpgrade /\ [][NextUpgrade]_vars

-----------------------------------------------------------------------------
(* Vocabulary of the properties *)

\* the last call was made and these were its tokens
Called == ret # "none"

Tokens == {call.addons[i] : i \in 1..Len(call.addons)}

\* a token _update_addons accepts
ValidToken(t) == t = "web_application_routing" \/ t \in DOMAIN ADDONS

\* a catalog add-on whose state lives in the add-on profile map
ProfileAddon(t) == t \in DOMAIN ADDONS /\ t # "web_application_routing"

\* the add-on profile dict of a cluster object, {} for None
ProfilesOf(inst) == inst.addon_profiles.m

\* the keys of a cluster object that equal key up to letter case
SpellingsOf(inst, key) == {k \in DOMAIN ProfilesOf(inst) : Lower(k) = Lower(key)}

\* C1 as stated: an invalid token anywhere in the list makes the call fail with
\* the unknown-add-on error and leaves the whole cluster object untouched.
C1_AsStated ==
    (Called /\ \E t \in Tokens : ~ValidToken(t))
        => (ret = "InvalidAddon" /\ instance = pre)

\* C1 (amended): a list with an invalid token never succeeds and leaves the
\* service-principal profile untouched; when the invalid token is the first
\* one the error is the unknown-add-on error and the cluster object is exactly
\* as before; a profile map that was None or empty is never touched.  Tokens
\* before the invalid one have been applied.
C1_UnknownAddon ==
    (Called /\ \E t \in Tokens : ~ValidToken(t))
        => /\ ret # "ok"
           /\ instance.service_principal_profile = pre.service_principal_profile
           /\ ~SharesAddonProfiles(pre) => instance.addon_profiles = pre.addon_profiles
           /\ ~ValidToken(call.addons[1]) => (ret = "InvalidAddon" /\ instance = pre)
           /\ (\A i \in 1..(Len(call.addons) - 1) : ValidToken(call.addons[i]))
                 => (ret = "InvalidAddon" <=>
                        update_addons(pre, SubSeq(call.addons, 1, Len(call.addons) - 1),
                                      call.enable, call.o).err = "ok")

\* C1 witness: a valid token, then the invalid one, on a cluster that has
\* add-on profiles; the call has raised the unknown-add-on error.
C1_Witness ==
    /\ ret = "InvalidAddon"
    /\ Len(call.addons) = 2
    /\ ValidToken(call.addons[1])
    /\ SharesAddonProfiles(pre)

\* C2 as stated: enabling any catalog add-on of the profile map whose profile
\* is already enabled fails with the already-enabled error and keeps the profile.
C2_AsStated ==
    (Called /\ call.enable /\ ProfileAddon(call.addons[1])
       /\ \E k \in SpellingsOf(pre, AddonKey(call.addons[1])) : ProfilesOf(pre)[k].enabled)
        => /\ ret = "AlreadyEnabled"
           /\ ProfilesOf(instance)[AddonKey(call.addons[1])]
                \in {ProfilesOf(pre)[k] : k \in SpellingsOf(pre, AddonKey(call.addons[1]))}

\* C2 (amended): the already-enabled error is raised, and the profile kept, for
\* monitoring, virtual-node, ingress-appgw, open-service-mesh, confcom and
\* azure-keyvault-secrets-provider; for http_application_routing,
\* kube-dashboard, azure-policy and gitops the call succeeds and leaves the
\* profile enabled with the config and identity it had.
C2_AlreadyEnabled ==
    (Called /\ call.enable /\ ProfileAddon(call.addons[1])
       /\ \E k \in SpellingsOf(pre, AddonKey(call.addons[1])) : ProfilesOf(pre)[k].enabled)
        => LET key == AddonKey(call.addons[1])
               was == {ProfilesOf(pre)[k] : k \in SpellingsOf(pre, key)}
           IN IF call.addons[1] \in {"monitoring", "virtual-node", "ingress-appgw",
                                     "open-service-mesh", "confcom",
                                     "azure-keyvault-secrets-provider"}
              THEN ret = "AlreadyEnabled" /\ ProfilesOf(instance)[key] \in was
              ELSE Len(call.addons) = 1
                     => (ret = "ok" /\ ProfilesOf(instance)[key] \in was)

\* C2 witness: an enabled monitoring profile and a call that tried to enable it.
C2_Witness ==
    /\ call.enable
    /\ call.addons = <<"monitoring">>
    /\ CONST_MONITORING_ADDON_NAME \in DOMAIN ProfilesOf(pre)
    /\ ProfilesOf(pre)[CONST_MONITORING_ADDON_NAME].enabled
    /\ ret = "AlreadyEnabled"

\* C3 as stated: disabling a profile-map add-on other than the dashboard whose
\* canonical key is not a key of the map fails with the not-installed error;
\* for the dashboard the call succeeds and leaves an entry with enabled=false.
C3_AsStated ==
    (Called /\ ~call.enable /\ Len(call.addons) = 1 /\ ProfileAddon(call.addons[1])
       /\ AddonKey(call.addons[1]) \notin DOMAIN ProfilesOf(pre))
        => IF call.addons[1] = "kube-dashboard"
           THEN /\ ret = "ok"
                /\ ~ProfilesOf(instance)[CONST_KUBE_DASHBOARD_ADDON_NAME].enabled
           ELSE ret = "NotInstalled"

\* C3 (amended): the not-installed error is raised when the map has no key
\* equal to the canonical key up to letter case (an entry under another
\* spelling counts as installed and is disabled); for the dashboard the call
\* then succeeds and leaves a newly created entry: enabled=false, no config.
C3_NotInstalled ==
    (Called /\ ~call.enable /\ ProfileAddon(call.addons[1])
       /\ SpellingsOf(pre, AddonKey(call.addons[1])) = {})
        => IF call.addons[1] = "kube-dashboard"
           THEN Len(call.addons) = 1
                  => /\ ret = "ok"
                     /\ ProfilesOf(instance)[CONST_KUBE_DASHBOARD_ADDON_NAME]
                          = ManagedClusterAddonProfile(FALSE, NoneConfig)
           ELSE /\ ret = "NotInstalled"
                /\ instance = pre

\* C3 witness: the dashboard has been disabled on a cluster that had other
\* add-on profiles but none for it.
C3_Witness ==
    /\ ~call.enable
    /\ call.addons = <<"kube-dashboard">>
    /\ ret = "ok"
    /\ DOMAIN ProfilesOf(pre) = {CONST_MONITORING_ADDON_NAME}
    /\ DOMAIN ProfilesOf(instance)
         = {CONST_MONITORING_ADDON_NAME, CONST_KUBE_DASHBOARD_ADDON_NAME}


\* the profile-map keys of the tokens of the last call
KeysCalled == {AddonKey(t) : t \in {u \in Tokens : ProfileAddon(u)}}

\* the last call disabled its add-ons and returned
DisabledOk == ~call.enable /\ ret = "ok"

\* C4: disabling is idempotent.  When a disable call has returned, the next
\* call with the same add-on list and enable=false returns too; every add-on
\* named is still a key of the map, with enabled=false and config None after
\* the first call, and the second call leaves the cluster object as the first
\* left it.
C4_DisableTwice ==
    [][(DisabledOk /\ call' = call)
         => /\ \A key \in KeysCalled :
                  /\ key \in DOMAIN ProfilesOf(instance)
                  /\ ~ProfilesOf(instance)[key].enabled
                  /\ ProfilesOf(instance)[key].config = NoneConfig
            /\ ret' = "ok"
            /\ instance' = instance]_vars

\* C4 witness: a disable call has returned on a cluster object that an earlier
\* call had returned with the add-on already disabled and without config.
C4_Witness ==
    /\ DisabledOk
    /\ call.addons = <<"monitoring">>
    /\ pre.service_principal_profile.null
    /\ CONST_MONITORING_ADDON_NAME \in DOMAIN ProfilesOf(pre)
    /\ ProfilesOf(pre)[CONST_MONITORING_ADDON_NAME].identity = "identity1"
    /\ ~ProfilesOf(pre)[CONST_MONITORING_ADDON_NAME].enabled
    /\ ProfilesOf(pre)[CONST_MONITORING_ADDON_NAME].config = NoneConfig
    /\ instance = pre

EnabledMonitoringOnEmpty ==
    /\ call.enable
    /\ call.addons = <<"monitoring">>
    /\ ret = "ok"
    /\ DOMAIN ProfilesOf(pre) = {}
    /\ Truthy(call.o.workspace_resource_id)
    /\ ~call.o.enable_msi_auth_for_monitoring

\* C9: enabling monitoring on an empty profile map with a workspace id and
\* MSI auth at its default leaves exactly one entry, enabled, whose config
\* maps the workspace key to the sanitized id and the MSI-auth key to the
\* string "false".
C9_MonitoringScenario ==
    EnabledMonitoringOnEmpty
        => /\ DOMAIN ProfilesOf(instance) = {CONST_MONITORING_ADDON_NAME}
           /\ ProfilesOf(instance)[CONST_MONITORING_ADDON_NAME].enabled
           /\ ~ProfilesOf(instance)[CONST_MONITORING_ADDON_NAME].config.null
           /\ LET config == ProfilesOf(instance)[CONST_MONITORING_ADDON_NAME].config.kv
              IN /\ config[CONST_MONITORING_LOG_ANALYTICS_WORKSPACE_RESOURCE_ID]
                      = Str("/subscriptions/s1/workspaces/ws1")
                 /\ config[CONST_MONITORING_USING_AAD_MSI_AUTH] = Str("false")


RECURSIVE SumSeq(_)
SumSeq(q) == IF q = <<>> THEN 0 ELSE Head(q) + SumSeq(Tail(q))

\* C6: the wait ends within 10 calls of the remote delete operation.  While
\* it runs fewer than 10 calls were made; it returns True at the first call
\* that succeeds, which is the last call made; when 10 calls failed softly
\* it has returned False and raised nothing.
C6_BoundedAttempts ==
    /\ wait.calls <= MaxAttempts
    /\ wait.pc = "loop" => (wait.calls < MaxAttempts /\ wait.last # "ok")
    /\ wait.last = "ok"
         => (wait.pc = "returned" /\ wait.ret = "True"
             /\ wait.calls = Len(wait.sleeps) + 1)
    /\ (wait.pc = "returned" /\ wait.ret = "True") => wait.last = "ok"
    /\ (wait.calls = MaxAttempts /\ CaughtAndLogged(wait.last))
         => (wait.pc = "returned" /\ wait.ret = "False" /\ wait.raised = "None")
    /\ (wait.pc = "returned" /\ wait.ret = "False")
         => (wait.calls = MaxAttempts /\ Len(wait.sleeps) = MaxAttempts)

\* C6 witness: ten soft failures, False returned.
C6_Witness ==
    /\ wait.pc = "returned"
    /\ wait.ret = "False"
    /\ wait.calls = 10

\* C7: the i-th soft failure (i = 0..9) is followed by a sleep of
\* delay + delay*i seconds, and nothing else sleeps: no sleep follows a call
\* that succeeded or raised.  With delay = 2 and ten soft failures the sleeps
\* are 2, 4, ..., 20, 110 seconds in all, and False is returned.
C7_LinearBackoff ==
    /\ \A i \in 1..Len(wait.sleeps) : wait.sleeps[i] = wait.delay + wait.delay * (i - 1)
    /\ Len(wait.sleeps) = wait.calls - (IF CaughtAndLogged(wait.last) \/ wait.calls = 0
                                         THEN 0 ELSE 1)
    /\ (wait.delay = DefaultDelay /\ wait.pc = "returned" /\ wait.ret = "False")
         => /\ wait.sleeps = <<2, 4, 6, 8, 10, 12, 14, 16, 18, 20>>
            /\ SumSeq(wait.sleeps) = 110

\* C7 witness: delay 2, every attempt failed softly, False returned.
C7_Witness ==
    /\ wait.delay = DefaultDelay
    /\ wait.pc = "returned"
    /\ wait.ret = "False"
    /\ Len(wait.sleeps) = 10

\* C8 as stated: only a "not found" remote error is a soft failure; every
\* other error of the delete call is raised to the caller at once.
C8_AsStated ==
    wait.last \notin {"none", "ok", "CloudError:NotFound"}
        => (wait.pc = "raised" /\ wait.raised = wait.last)

\* C8 (amended): every CloudError of the delete call, whatever the remote
\* error it carries, is a soft failure: it is followed by a sleep and, while
\* attempts remain, by another attempt.  A CLIError or an exception of any
\* other class is raised to the caller at once, with no sleep after it and no
\* further attempt.
C8_ErrorClasses ==
    /\ wait.last \in {"CloudError:NotFound", "CloudError:Forbidden"}
         => /\ wait.pc # "raised"
            /\ Len(wait.sleeps) = wait.calls
            /\ wait.pc = "loop" <=> wait.calls < MaxAttempts
    /\ wait.last \in {"CLIError", "OtherError"}
         => /\ wait.pc = "raised"
            /\ wait.raised = wait.last
            /\ Len(wait.sleeps) = wait.calls - 1
    /\ wait.pc = "raised" => wait.last \in {"CLIError", "OtherError"}

\* C8 witness: soft failures, then a CLIError that was raised to the caller.
C8_Witness ==
    /\ wait.pc = "raised"
    /\ wait.raised = "CLIError"
    /\ wait.calls = 3


\* C10: whenever _update_addons has returned, the cluster object has no
\* service-principal profile, and the body of every create-or-update request
\* of aks_enable_addons and aks_disable_addons is that object: no request
\* carries a service-principal profile, though the cluster read had one.
C10_ServicePrincipalCleared ==
    /\ (Called /\ ret = "ok") => instance.service_principal_profile.null
    /\ cmd.submitted.sent
         => /\ ret = "ok"
            /\ cmd.submitted.body = instance
            /\ cmd.submitted.body.service_principal_profile = NoneServicePrincipalProfile
    /\ Called => ~pre.service_principal_profile.null

\* C10 witness: an enable command on a cluster with a service principal has
\* sent its request.
C10_Witness ==
    /\ cmd.name = "aks_enable_addons"
    /\ cmd.submitted.sent
    /\ pre.service_principal_profile.client_id = "sp-client-id"

-----------------------------------------------------------------------------
(* The command handlers: order of steps, submission, errors *)

\* a command handler has run
Ran == cmd.name \in {"aks_enable_addons", "aks_disable_addons"}

\* the positions of step e in the steps of the last command
Positions(e) == {i \in 1..Len(cmd.log) : cmd.log[i] = e}

\* the calls that assign a role to an identity of the updated cluster
RoleAssignmentCalls ==
    {i \in 1..Len(cmd.log) :
        cmd.log[i] \in {"add_monitoring_role_assignment",
                        "add_ingress_appgw_addon_role_assignment",
                        "add_virtual_node_role_assignment"}}

\* the cluster submitted has an add-on whose identity needs a role: monitoring
\* or ingress-appgw enabled, or a virtual-node profile
NeedsRoleAssignment ==
    \/ EnabledIn(cmd.submitted.body, CONST_MONITORING_ADDON_NAME)
    \/ EnabledIn(cmd.submitted.body, CONST_INGRESS_APPGW_ADDON_NAME)
    \/ (CONST_VIRTUAL_NODE_ADDON_NAME \o os_type) \in DOMAIN ProfilesOf(cmd.submitted.body)

\* C11: when aks_enable_addons has submitted a cluster that needs a role
\* assignment, the create-or-update was awaited whatever no_wait says, every
\* role-assignment call comes after the wait and is given the cluster the
\* operation produced, and that cluster is returned; otherwise the request
\* went through sdk_no_wait, nothing was awaited by the handler, no role was
\* assigned and the poller is returned (built without polling under no_wait).
C11_AwaitedForRoleAssignment ==
    (cmd.name = "aks_enable_addons" /\ cmd.submitted.sent)
        => IF NeedsRoleAssignment
           THEN /\ \E i \in Positions("create_or_update") : cmd.log[i + 1] = "wait"
                /\ \A i \in RoleAssignmentCalls : \E j \in Positions("wait") : j < i
                /\ cmd.given \subseteq {"cluster"}
                /\ RoleAssignmentCalls # {} => cmd.given = {"cluster"}
                /\ cmd.result = "cluster"
           ELSE /\ Positions("wait") = {}
                /\ RoleAssignmentCalls = {}
                /\ cmd.given = {}
                /\ cmd.result = IF cmd.no_wait THEN "poller:no_polling" ELSE "poller"

\* C11 witness: an enable command with no_wait that assigned the monitoring
\* role after the wait.
C11_Witness ==
    /\ cmd.name = "aks_enable_addons"
    /\ cmd.no_wait
    /\ Positions("add_monitoring_role_assignment") # {}
    /\ cmd.result = "cluster"

\* C12 as stated: the handler loads the cluster, then calls the reconciler,
\* and what it does on behalf of disabling monitoring comes after that call
\* and before the request.
C12_AsStated ==
    Ran => /\ cmd.log[1] = "get"
           /\ cmd.log[2] = "update_addons"
           /\ \A i \in Positions("create_or_update") : i > 2

\* C12 (amended): the steps of a handler are, in this order: the load of the
\* cluster; in aks_disable_addons, when the add-on list is exactly
\* "monitoring" and the enabled monitoring profile uses MSI auth, the removal
\* of the data collection rule association; the call of _update_addons; in
\* aks_enable_addons, when monitoring is enabled afterwards, the call of
\* ensure_container_insights_for_monitoring; the create-or-update request.
\* No handler calls _delete_role_assignments.
C12_StepOrder ==
    Ran => LET removes == Positions("remove_dcr_association")
               update == Positions("update_addons")
               ensures == Positions("ensure_container_insights:dcr")
                             \cup Positions("ensure_container_insights:legacy")
               submits == Positions("create_or_update")
           IN /\ cmd.log[1] = "get"
              /\ removes \subseteq {2}
              /\ update = {2 + Cardinality(removes)}
              /\ removes # {}
                   <=> (cmd.name = "aks_disable_addons"
                        /\ RemovesDcrAssociation(pre, call.addons))
              /\ ensures \subseteq {3}
              /\ ensures # {} => cmd.name = "aks_enable_addons"
              /\ submits \subseteq {3 + Cardinality(removes) + Cardinality(ensures)}
              /\ Positions("delete_role_assignments") = {}
              /\ \A i \in 1..Len(cmd.log) :
                    i > 2 + Cardinality(removes) + Cardinality(ensures)
                        => /\ submits # {}
                           /\ \A j \in submits : j <= i

\* C12 witness: a disable command that removed the data collection rule
\* association and then submitted the cluster.
C12_Witness ==
    /\ cmd.name = "aks_disable_addons"
    /\ cmd.log = <<"get", "remove_dcr_association", "update_addons", "create_or_update">>

\* C13: a command that failed has sent no create-or-update request: the
\* stored cluster is what it was, _update_addons was called once and nothing
\* was done remotely before the failure.  Every error of _update_addons is
\* the error of the command, and MSI auth for monitoring on a cluster with a
\* service principal is refused after _update_addons has returned.
C13_NothingSubmittedOnError ==
    Ran => /\ cmd.err # "ok"
                => /\ ~cmd.submitted.sent
                   /\ remote = pre
                   /\ cmd.log = <<"get", "update_addons">>
                   /\ cmd.result = "none"
           /\ cmd.err = "ok" <=> cmd.submitted.sent
           /\ ret # "ok" => cmd.err = ret
           /\ (cmd.name = "aks_enable_addons" /\ ret = "ok"
                 /\ EnabledIn(instance, CONST_MONITORING_ADDON_NAME)
                 /\ ~ProfilesOf(instance)[CONST_MONITORING_ADDON_NAME].config.null
                 /\ UsesMsiAuth(instance)
                 /\ pre.service_principal_profile.client_id # "msi")
                => cmd.err = "ArgumentUsageError"

\* C13 witness: MSI auth for monitoring was asked for on a cluster with a
\* service principal, and the command has failed.
C13_Witness ==
    /\ cmd.name = "aks_enable_addons"
    /\ call.o.enable_msi_auth_for_monitoring
    /\ pre.service_principal_profile.client_id = "sp-client-id"
    /\ cmd.err = "ArgumentUsageError"

\* C19: a command that succeeded has sent exactly one create-or-update
\* request, after its one call of _update_addons; no step of a command is
\* taken twice.
C19_OneRequest ==
    (Ran /\ cmd.err = "ok")
        => /\ Cardinality(Positions("create_or_update")) = 1
           /\ Cardinality(Positions("update_addons")) = 1
           /\ \A i \in Positions("create_or_update") :
                 \A j \in Positions("update_addons") : j < i
           /\ \A i, j \in 1..Len(cmd.log) : cmd.log[i] = cmd.log[j] => i = j

\* C19 witness: an enable command that awaited its request and assigned a
\* role, and a request that is the only one.
C19_Witness ==
    /\ cmd.name = "aks_enable_addons"
    /\ cmd.err = "ok"
    /\ RoleAssignmentCalls # {}
    /\ Cardinality(Positions("create_or_update")) = 1

-----------------------------------------------------------------------------
(* _update_addons: virtual-node, web_application_routing, string flags *)

\* the profiles the cluster held for key before the call, under any spelling
Was(key) == {ProfilesOf(pre)[k] : k \in SpellingsOf(pre, key)}

\* C14: enabling virtual-node (as the first token) on a profile that is
\* enabled fails with the already-enabled error, with or without a subnet
\* name, and keeps the profile; on a profile that is not enabled, or on none,
\* it fails without a subnet name (None or "") with the missing-subnet error,
\* and the cluster then holds no profile for virtual-node if it held none, and
\* else the profile it held, not enabled and with the config it had.
C14_VirtualNodeSubnet ==
    (Called /\ call.enable /\ call.addons[1] = "virtual-node")
        => LET key == CONST_VIRTUAL_NODE_ADDON_NAME \o os_type
           IN /\ (\E p \in Was(key) : p.enabled)
                    => /\ ret = "AlreadyEnabled"
                       /\ ProfilesOf(instance)[key] \in Was(key)
              /\ (call.o.subnet_name \in {"None", ""} /\ \A p \in Was(key) : ~p.enabled)
                    => /\ ret = "MissingSubnet"
                       /\ Was(key) = {} => SpellingsOf(instance, key) = {}
                       /\ Was(key) # {}
                            => /\ SpellingsOf(instance, key) = {key}
                               /\ ProfilesOf(instance)[key] \in Was(key)
                               /\ ~ProfilesOf(instance)[key].enabled
              /\ (call.o.subnet_name \notin {"None", ""} /\ \A p \in Was(key) : ~p.enabled)
                    => ret # "MissingSubnet"

\* C14 witness: virtual-node enabled with an empty subnet name on a cluster
\* that holds a disabled virtual-node profile; the missing-subnet error.
C14_Witness ==
    /\ call.enable
    /\ call.addons = <<"virtual-node">>
    /\ call.o.subnet_name = ""
    /\ Was(CONST_VIRTUAL_NODE_ADDON_NAME \o os_type) # {}
    /\ ret = "MissingSubnet"

\* C16: a call for web_application_routing alone returns and leaves the
\* entries of the add-on profile map as they were; whenever a call with that
\* token returns, the cluster has an ingress profile with a web-routing
\* record whose enabled field is the enable flag, and whose DNS zone resource
\* id is the one supplied, or what it was (None for a new record) when none
\* was supplied.
C16_WebAppRouting ==
    (Called /\ "web_application_routing" \in Tokens)
        => /\ call.addons = <<"web_application_routing">>
                => (ret = "ok" /\ ProfilesOf(instance) = ProfilesOf(pre))
           /\ ret = "ok"
                => /\ ~instance.ingress_profile.null
                   /\ ~instance.ingress_profile.web_app_routing.null
                   /\ instance.ingress_profile.web_app_routing.enabled
                        = (IF call.enable THEN "True" ELSE "False")
                   /\ instance.ingress_profile.web_app_routing.dns_zone_resource_id
                        = (IF call.o.dns_zone_resource_id # "None"
                           THEN call.o.dns_zone_resource_id
                           ELSE pre.ingress_profile.web_app_routing.dns_zone_resource_id)

\* C16 witness: web_application_routing disabled, no zone supplied, on a
\* cluster whose web-routing record is enabled and names a zone.
C16_Witness ==
    /\ ~call.enable
    /\ call.addons = <<"web_application_routing">>
    /\ ret = "ok"
    /\ pre.ingress_profile.web_app_routing.dns_zone_resource_id = "zone0"
    /\ instance.ingress_profile.web_app_routing.enabled = "False"

\* C20: the config of confcom after it has been enabled holds the string
\* "true" for the SGX quote helper if enable_sgxquotehelper is set and the
\* string "false" otherwise; the config of azure-keyvault-secrets-provider
\* holds "true" for secret rotation exactly when enable_secret_rotation is
\* set and disable_secret_rotation is not, "false" otherwise, and for the poll
\* interval the value supplied, "2m" when none is.
C20_StringFlags ==
    (Called /\ call.enable /\ ret = "ok" /\ Len(call.addons) = 1)
        => /\ call.addons[1] = "confcom"
                => LET p == ProfilesOf(instance)[CONST_CONFCOM_ADDON_NAME]
                   IN /\ p.enabled
                      /\ p.config = Config(
                            [k \in {CONST_ACC_SGX_QUOTE_HELPER_ENABLED} |->
                                Str(IF call.o.enable_sgxquotehelper
                                    THEN "true" ELSE "false")])
           /\ call.addons[1] = "azure-keyvault-secrets-provider"
                => LET p == ProfilesOf(instance)[
                                CONST_AZURE_KEYVAULT_SECRETS_PROVIDER_ADDON_NAME]
                   IN /\ p.enabled
                      /\ DOMAIN p.config.kv
                           = {CONST_SECRET_ROTATION_ENABLED, CONST_ROTATION_POLL_INTERVAL}
                      /\ p.config.kv[CONST_SECRET_ROTATION_ENABLED]
                           = Str(IF call.o.enable_secret_rotation
                                    /\ ~call.o.disable_secret_rotation
                                 THEN "true" ELSE "false")
                      /\ p.config.kv[CONST_ROTATION_POLL_INTERVAL]
                           = Str(IF call.o.rotation_poll_interval = "None"
                                 THEN "2m" ELSE call.o.rotation_poll_interval)

\* C20 witness: the secrets provider enabled with both rotation flags set.
C20_Witness ==
    /\ call.enable
    /\ ret = "ok"
    /\ call.addons = <<"azure-keyvault-secrets-provider">>
    /\ call.o.enable_secret_rotation
    /\ call.o.disable_secret_rotation
    /\ ProfilesOf(instance)[CONST_AZURE_KEYVAULT_SECRETS_PROVIDER_ADDON_NAME]
         .config.kv[CONST_SECRET_ROTATION_ENABLED] = Str("false")

-----------------------------------------------------------------------------
(* _ensure_aks_acr_role_assignment and the deletion wait *)

\* C15: in detach mode _ensure_aks_acr_role_assignment raises its CLIError
\* ("Could not delete role assignments for ACR") exactly when
\* _delete_role_assignments has returned False, and returns exactly when it
\* has returned True; an exception of _delete_role_assignments is passed on.
\* In detach mode add_role_assignment is never called; without detach
\* _delete_role_assignments is never called.
C15_CallerSurfacesExhaustion ==
    /\ cmd.detach
         => /\ cmd.adds = 0
            /\ cmd.err = CouldNotDelete
                 <=> (cmd.pc = "raised" /\ wait.pc = "returned" /\ wait.ret = "False")
            /\ cmd.pc = "returned" <=> (cmd.pc \notin {"deleting", "raised"}
                                        /\ wait.pc = "returned" /\ wait.ret = "True")
            /\ (cmd.pc = "raised" /\ wait.pc = "raised") => cmd.err = wait.raised
            /\ cmd.pc \in {"returned", "raised"} => wait.pc \in {"returned", "raised"}
    /\ ~cmd.detach
         => /\ wait = NoWait
            /\ cmd.err \in {"None", CouldNotCreate}
            /\ cmd.pc \in {"returned", "raised"} => cmd.adds = 1

\* C15 witness: a detach on which every deletion attempt failed softly; the
\* caller has raised its CLIError.
C15_Witness ==
    /\ cmd.detach
    /\ wait.calls = MaxAttempts
    /\ wait.ret = "False"
    /\ cmd.pc = "raised"
    /\ cmd.err = CouldNotDelete

-----------------------------------------------------------------------------
(* aks_upgrade: confirmation prompts *)

\* the positions of the prompts among the steps of the last command
PromptsShown == {i \in 1..Len(cmd.log) : cmd.log[i] \in Prompts}

\* the positions of the requests that change the cluster
UpgradeRequests ==
    {i \in 1..Len(cmd.log) :
        cmd.log[i] \in {"create_or_update", "upgrade_node_image_version"}}

\* the k-th prompt shown is at position i
IsKthPrompt(k, i) ==
    i \in PromptsShown /\ Cardinality({j \in PromptsShown : j <= i}) = k

\* C17: when the user declines a prompt of aks_upgrade, that prompt is the
\* last thing the command did: it returns None and has sent no
\* create-or-update and no node-image upgrade request.  With yes no prompt is
\* shown.  The command returns None in no other case, and sends no request
\* that changes the cluster before the prompts it shows.
C17_PromptsInterrupt ==
    cmd.name = "aks_upgrade"
        => /\ \A k \in 1..2 : \A i \in PromptsShown :
                 (IsKthPrompt(k, i) /\ ~cmd.answers[k])
                     => /\ i = Len(cmd.log)
                        /\ cmd.result = "None"
                        /\ cmd.err = "ok"
                        /\ UpgradeRequests = {}
           /\ cmd.args.yes => PromptsShown = {}
           /\ ~cmd.args.yes => (cmd.log # <<>> /\ cmd.log[1] = "prompt:upgrade")
           /\ cmd.result = "None"
                 => (~cmd.args.yes /\ Len(cmd.log) \in PromptsShown)
           /\ \A i \in UpgradeRequests : \A j \in PromptsShown : j < i

\* C17 witness: the first prompt accepted, the node-image prompt declined
\* after the cluster was read.
C17_Witness ==
    /\ cmd.name = "aks_upgrade"
    /\ cmd.log = <<"prompt:upgrade", "get", "prompt:node_image">>
    /\ cmd.answers = <<TRUE, FALSE>>
    /\ cmd.result = "None"

-----------------------------------------------------------------------------
(* _update_addons: the ingress-appgw config, the frame, the round trip *)

\* what the options of the last call supply for each key of the
\* ingress-appgw config, "None" when nothing
AppgwSupplied ==
    [k \in {CONST_INGRESS_APPGW_APPLICATION_GATEWAY_NAME, CONST_INGRESS_APPGW_SUBNET_CIDR,
            CONST_INGRESS_APPGW_APPLICATION_GATEWAY_ID, CONST_INGRESS_APPGW_SUBNET_ID,
            CONST_INGRESS_APPGW_WATCH_NAMESPACE} |->
        CASE k = CONST_INGRESS_APPGW_APPLICATION_GATEWAY_NAME -> call.o.appgw_name
          [] k = CONST_INGRESS_APPGW_SUBNET_CIDR ->
               IF call.o.appgw_subnet_cidr # "None" THEN call.o.appgw_subnet_cidr
               ELSE call.o.appgw_subnet_prefix
          [] k = CONST_INGRESS_APPGW_APPLICATION_GATEWAY_ID -> call.o.appgw_id
          [] k = CONST_INGRESS_APPGW_SUBNET_ID -> call.o.appgw_subnet_id
          [] k = CONST_INGRESS_APPGW_WATCH_NAMESPACE -> call.o.appgw_watch_namespace]

\* C21: after ingress-appgw has been enabled its profile is enabled and its
\* config has one key for each of gateway name, subnet CIDR, gateway id,
\* subnet id and watch namespace that was supplied, mapped to the string
\* supplied, and no other key; the subnet CIDR is appgw_subnet_cidr when both
\* it and appgw_subnet_prefix are supplied.
C21_AppgwConfig ==
    (Called /\ call.enable /\ ret = "ok" /\ call.addons = <<"ingress-appgw">>)
        => LET p == ProfilesOf(instance)[CONST_INGRESS_APPGW_ADDON_NAME]
           IN /\ p.enabled
              /\ ~p.config.null
              /\ DOMAIN p.config.kv
                   = {k \in DOMAIN AppgwSupplied : AppgwSupplied[k] # "None"}
              /\ \A k \in DOMAIN p.config.kv : p.config.kv[k] = Str(AppgwSupplied[k])

\* C21 witness: ingress-appgw enabled with both a subnet prefix and a subnet
\* CIDR; the CIDR is what the config holds.
C21_Witness ==
    /\ call.enable
    /\ ret = "ok"
    /\ call.addons = <<"ingress-appgw">>
    /\ call.o.appgw_subnet_prefix = "10.0.0.0/16"
    /\ call.o.appgw_subnet_cidr = "10.1.0.0/16"
    /\ ProfilesOf(instance)[CONST_INGRESS_APPGW_ADDON_NAME].config.kv
         = [k \in {CONST_INGRESS_APPGW_SUBNET_CIDR} |-> Str("10.1.0.0/16")]

-----------------------------------------------------------------------------
(* aks_upgrade: what is upgraded *)

\* the version the last aks_upgrade upgrades to: that of the snapshot when
\* one is named, the kubernetes_version argument otherwise
TargetVersion ==
    IF cmd.args.cluster_snapshot_id \notin {"None", ""} THEN "1.26"
    ELSE cmd.args.kubernetes_version

\* the cluster read is a legacy cluster: fewer than 8 agent pools at most, or
\* a pool in an availability set
LegacyCluster ==
    \/ remote.max_agent_pools < 8
    \/ \E i \in DOMAIN remote.agent_pool_profiles :
          remote.agent_pool_profiles[i].type = "AvailabilitySet"

\* C22: aks_upgrade sends its create-or-update exactly when node_image_only
\* is not set and every prompt shown was accepted.  The cluster it sends has
\* the target version; on a legacy cluster, or without control_plane_only,
\* every node pool has the target version as orchestrator version and no
\* creation data; on another cluster with control_plane_only the node pools
\* are as they were read.
C22_UpgradeVersions ==
    cmd.name = "aks_upgrade"
        => /\ Positions("create_or_update") # {}
                <=> (/\ cmd.err = "ok"
                     /\ ~cmd.args.node_image_only
                     /\ \A k \in 1..Cardinality(PromptsShown) : cmd.answers[k])
           /\ Positions("create_or_update") # {}
                => /\ cmd.body.kubernetes_version = TargetVersion
                   /\ IF LegacyCluster \/ ~cmd.args.control_plane_only
                      THEN /\ DOMAIN cmd.body.agent_pool_profiles
                                = DOMAIN remote.agent_pool_profiles
                           /\ \A i \in DOMAIN cmd.body.agent_pool_profiles :
                                 cmd.body.agent_pool_profiles[i]
                                   = [remote.agent_pool_profiles[i] EXCEPT
                                        !.orchestrator_version = TargetVersion,
                                        !.creation_data = "None"]
                      ELSE cmd.body.agent_pool_profiles = remote.agent_pool_profiles

\* C22 witness: a legacy cluster with a node pool, upgraded to 1.26 with
\* control_plane_only after both prompts were accepted.
C22_Witness ==
    /\ cmd.name = "aks_upgrade"
    /\ cmd.args.control_plane_only
    /\ cmd.log = <<"prompt:upgrade", "get", "prompt:legacy_control_plane",
                   "create_or_update">>
    /\ Len(remote.agent_pool_profiles) = 1
    /\ cmd.body.agent_pool_profiles[1].orchestrator_version = "1.26"

-----------------------------------------------------------------------------
(* aks_enable_addons and aks_disable_addons: monitoring with MSI auth *)

\* the monitoring profile of a cluster object is enabled and the MSI-auth
\* flag of its config reads true, in any letter case
MonitoringWithMsiAuth(inst) ==
    /\ CONST_MONITORING_ADDON_NAME \in DOMAIN ProfilesOf(inst)
    /\ LET p == ProfilesOf(inst)[CONST_MONITORING_ADDON_NAME]
       IN /\ p.enabled
          /\ ~p.config.null
          /\ CONST_MONITORING_USING_AAD_MSI_AUTH \in DOMAIN p.config.kv
          /\ p.config.kv[CONST_MONITORING_USING_AAD_MSI_AUTH].val \in {"true", "True"}

\* C23: when _update_addons has returned to aks_enable_addons, the command
\* fails with ArgumentUsageError exactly when the monitoring profile it
\* returned is enabled with the MSI-auth flag true and the client id read
\* from the cluster before the call is not "msi"; the command then has sent
\* no request, and the service-principal profile of the object is cleared by
\* then.
C23_MsiAuthOnServicePrincipal ==
    (cmd.name = "aks_enable_addons" /\ ret = "ok")
        => /\ cmd.err = "ArgumentUsageError"
                <=> (/\ MonitoringWithMsiAuth(instance)
                     /\ pre.service_principal_profile.client_id # "msi")
           /\ cmd.err = "ArgumentUsageError"
                => /\ ~cmd.submitted.sent
                   /\ Positions("create_or_update") = {}
                   /\ instance.service_principal_profile.null
                   /\ remote = pre

\* C23 witness: monitoring enabled with MSI auth on a cluster with a service
\* principal: the flag is stored, the profile cleared, the command refused.
C23_Witness ==
    /\ cmd.name = "aks_enable_addons"
    /\ cmd.err = "ArgumentUsageError"
    /\ cmd.log = <<"get", "update_addons">>
    /\ MonitoringWithMsiAuth(instance)
    /\ instance.service_principal_profile.null
    /\ pre.service_principal_profile.client_id = "sp-client-id"

-----------------------------------------------------------------------------
(* _update_addons: frame *)

\* key k is, up to letter case, the profile key of a token of the last call
Named(k) ==
    \E t \in Tokens : ProfileAddon(t) /\ Lower(k) = Lower(AddonKey(t))

\* C24: when _update_addons has returned, every entry of the add-on profile
\* map whose key is not that of an add-on named in the list is there under
\* the key it had, with the enabled flag, config and identity it had, and no
\* such entry has been added; the ingress profile is what it was unless
\* web_application_routing was named.
C24_Frame ==
    (Called /\ ret = "ok")
        => /\ \A k \in DOMAIN ProfilesOf(pre) :
                 ~Named(k) => /\ k \in DOMAIN ProfilesOf(instance)
                              /\ ProfilesOf(instance)[k] = ProfilesOf(pre)[k]
           /\ \A k \in DOMAIN ProfilesOf(instance) :
                 ~Named(k) => k \in DOMAIN ProfilesOf(pre)
           /\ "web_application_routing" \notin Tokens
                 => instance.ingress_profile = pre.ingress_profile

\* C24 witness: monitoring enabled on a cluster that holds an enabled
\* dashboard profile under another spelling of its key; the dashboard entry
\* is as it was, the monitoring entry is new.
C24_Witness ==
    /\ call.enable
    /\ ret = "ok"
    /\ call.addons = <<"monitoring">>
    /\ DOMAIN ProfilesOf(pre) = {"KubeDashboard"}
    /\ ProfilesOf(pre)["KubeDashboard"].enabled
    /\ DOMAIN ProfilesOf(instance) = {"KubeDashboard", CONST_MONITORING_ADDON_NAME}
    /\ ProfilesOf(instance)["KubeDashboard"] = ProfilesOf(pre)["KubeDashboard"]

-----------------------------------------------------------------------------
(* aks_addon_list, aks_addon_show, aks_addon_update *)

\* mc.addon_profiles and addon_key in mc.addon_profiles and
\* mc.addon_profiles[addon_key].enabled: None and the empty dict are false
EnabledUnder(mc, addon_key) ==
    /\ ~mc.addon_profiles.null
    /\ DOMAIN mc.addon_profiles.m # {}
    /\ addon_key \in DOMAIN mc.addon_profiles.m
    /\ mc.addon_profiles.m[addon_key].enabled

\* ingress_profile, its web_app_routing and the enabled flag are all true
WebAppRoutingEnabled(mc) ==
    /\ ~mc.ingress_profile.null
    /\ ~mc.ingress_profile.web_app_routing.null
    /\ mc.ingress_profile.web_app_routing.enabled = "True"

\* az aks addon list: one entry per catalog name; virtual-node is looked up
\* under the key with the OS suffix
aks_addon_list(mc) ==
    [name \in DOMAIN ADDONS |->
        IF name = "web_application_routing"
        THEN [api_key |-> ADDONS[name], enabled |-> WebAppRoutingEnabled(mc)]
        ELSE LET addon_key == IF name = "virtual-node"
                              THEN ADDONS[name] \o os_type
                              ELSE ADDONS[name]
             IN  [api_key |-> addon_key, enabled |-> EnabledUnder(mc, addon_key)]]

\* what a query command leaves: the error it raised or the object it returned
QueryResult(name, addon, err, returned, config, web_app_routing, identity, listed) ==
    [name |-> name, addon |-> addon, err |-> err, returned |-> returned,
     api_key |-> IF returned THEN ADDONS[addon] ELSE "None",
     config |-> config, web_app_routing |-> web_app_routing,
     identity |-> identity, current_addons |-> listed, log |-> <<>>]

\* az aks addon show. For web_application_routing the test is
\* not A and not B and not C, evaluated left to right: with no ingress
\* profile the second operand reads an attribute of None; with one, the test
\* is false and the web_app_routing object, None included, is returned.
aks_addon_show(mc, addon) ==
    LET addon_key == ADDONS[addon] IN
    IF addon = "web_application_routing"
    THEN IF mc.ingress_profile.null
         THEN QueryResult("aks_addon_show", addon, "AttributeError", FALSE,
                          NoneConfig, NoneWebAppRouting, "None", <<>>)
         ELSE QueryResult("aks_addon_show", addon, "ok", TRUE, NoneConfig,
                          mc.ingress_profile.web_app_routing, "None", <<>>)
    ELSE IF ~EnabledUnder(mc, addon_key)
         THEN QueryResult("aks_addon_show", addon, "InvalidArgumentValueError",
                          FALSE, NoneConfig, NoneWebAppRouting, "None", <<>>)
         ELSE QueryResult("aks_addon_show", addon, "ok", TRUE,
                          mc.addon_profiles.m[addon_key].config, NoneWebAppRouting,
                          mc.addon_profiles.m[addon_key].identity, <<>>)

\* the enabled check of az aks addon update
PassesEnabledCheck(instance_, addon) ==
    IF addon = "web_application_routing"
    THEN WebAppRoutingEnabled(instance_)
    ELSE EnabledUnder(instance_, ADDONS[addon])

\* az aks addon update: the enabled check, then enable_addons with
\* check_enabled=False
aks_addon_update(instance_, addon) ==
    IF ~PassesEnabledCheck(instance_, addon)
    THEN QueryResult("aks_addon_update", addon, "InvalidArgumentValueError", FALSE,
                     NoneConfig, NoneWebAppRouting, "None", <<>>)
    ELSE [QueryResult("aks_addon_update", addon, "ok", FALSE, NoneConfig,
                      NoneWebAppRouting, "None", <<>>)
             EXCEPT !.log = <<"enable_addons">>]

\* the clusters of the add-on command sessions: those of the other sessions
\* and, for web_application_routing, one with the add-on switched off
AddonClusters(p) ==
    InitialClusters(p, {"msi"})
    \cup IF "web_application_routing" \in p
         THEN {[addon_profiles |-> NoneDict,
                ingress_profile |->
                    [ManagedClusterIngressProfile EXCEPT !.web_app_routing =
                        [null |-> FALSE, enabled |-> "False",
                         dns_zone_resource_id |-> "zone0"]],
                service_principal_profile |-> ServicePrincipalProfile("msi")]}
         ELSE {}

InitAddon ==
    /\ pool \in PoolsCmd
    /\ remote \in AddonClusters(pool)
    /\ instance = remote
    /\ pre = remote
    /\ call = NoCall
    /\ ret = "none"
    /\ cmd = QueryResult("none", "None", "ok", FALSE, NoneConfig,
                         NoneWebAppRouting, "None", <<>>)
    /\ wait = NoWait

\* az aks addon list
AksAddonList ==
    /\ cmd' = QueryResult("aks_addon_list", "None", "ok", FALSE, NoneConfig,
                          NoneWebAppRouting, "None", aks_addon_list(remote))
    /\ pre' = remote
    /\ instance' = remote
    /\ UNCHANGED <<pool, remote, call, ret, wait>>

\* az aks addon show --addon a
AksAddonShow ==
    \E addon \in pool :
        /\ cmd' = aks_addon_show(remote, addon)
        /\ pre' = remote
        /\ instance' = remote
        /\ UNCHANGED <<pool, remote, call, ret, wait>>

\* az aks addon update --addon a. enable_addons is imported from another
\* module: the cluster it leaves is any cluster of the session.
AksAddonUpdate ==
    \E addon \in pool :
        /\ cmd' = aks_addon_update(remote, addon)
        /\ pre' = remote
        /\ instance' = remote
        /\ IF cmd'.err = "ok"
           THEN remote' \in AddonClusters(pool)
           ELSE remote' = remote
        /\ UNCHANGED <<pool, call, ret, wait>>

NextAddon == AksAddonList \/ AksAddonShow \/ AksAddonUpdate

SpecAddon == InitAddon /\ [][NextAddon]_vars

\* the add-on command that ran last was show or update, for add-on a
Queried(handler, a) == cmd.name = handler /\ cmd.addon = a

\* aks_addon_list reports add-on a as enabled on the cluster the last
\* command read
ListedEnabled(a) == aks_addon_list(pre)[a].enabled

\* C25: every add-on that aks_addon_list reports as enabled on a cluster,
\* virtual-node included, is one for which aks_addon_show on that cluster
\* returns the configuration and aks_addon_update passes its enabled check
\* and calls the update.
C25_QueriesAgree ==
    \A a \in DOMAIN ADDONS :
        ListedEnabled(a)
            => /\ Queried("aks_addon_show", a) => cmd.err = "ok" /\ cmd.returned
               /\ Queried("aks_addon_update", a)
                     => cmd.err = "ok" /\ cmd.log = <<"enable_addons">>

\* C25, the part that holds: the three commands agree on every add-on but
\* virtual-node.
C25_AgreeButVirtualNode ==
    \A a \in DOMAIN ADDONS \ {"virtual-node"} :
        ListedEnabled(a)
            => /\ Queried("aks_addon_show", a) => cmd.err = "ok" /\ cmd.returned
               /\ Queried("aks_addon_update", a)
                     => cmd.err = "ok" /\ cmd.log = <<"enable_addons">>

\* C26: aks_addon_show on an add-on whose profile is absent or not enabled,
\* web_application_routing included, raises InvalidArgumentValueError and
\* returns nothing.
C26_ShowOnlyEnabled ==
    \A a \in DOMAIN ADDONS :
        (Queried("aks_addon_show", a) /\ ~ListedEnabled(a))
            => cmd.err = "InvalidArgumentValueError" /\ ~cmd.returned

\* C26, the part that holds: every add-on kept in addon_profiles.
C26_ShowOnlyEnabledProfiles ==
    \A a \in DOMAIN ADDONS \ {"web_application_routing"} :
        (Queried("aks_addon_show", a) /\ ~ListedEnabled(a))
            => cmd.err = "InvalidArgumentValueError" /\ ~cmd.returned

\* C25 failing case: virtual-node is listed as enabled under
\* aciConnectorLinux, and show looks it up under aciConnector and raises.
C25_Witness ==
    /\ Queried("aks_addon_show", "virtual-node")
    /\ ListedEnabled("virtual-node")
    /\ cmd.err = "InvalidArgumentValueError"

\* C26 failing case: show returns the web_app_routing object of a cluster on
\* which the add-on is switched off.
C26_Witness ==
    /\ Queried("aks_addon_show", "web_application_routing")
    /\ pre.ingress_profile.web_app_routing.enabled = "False"
    /\ cmd.err = "ok"
    /\ cmd.returned
    /\ cmd.web_app_routing = pre.ingress_profile.web_app_routing

-----------------------------------------------------------------------------
(* aks_disable_addons and aks_enable_addons: which add-ons they act for *)

\* the data collection rule association was removed, and before any request
DcrRemovedBeforeRequest ==
    /\ Positions("remove_dcr_association") # {}
    /\ \A i \in Positions("remove_dcr_association") :
          \A j \in Positions("create_or_update") : i < j

\* C27: when aks_disable_addons has submitted the cluster, monitoring was
\* among the add-ons of the list and the monitoring profile of the cluster
\* it loaded was enabled with the MSI-auth flag true, the data collection
\* rule association was removed before the request, whatever else the list
\* names.
C27_DcrRemovedWithMonitoring ==
    (/\ cmd.name = "aks_disable_addons"
     /\ cmd.submitted.sent
     /\ "monitoring" \in Tokens
     /\ MonitoringWithMsiAuth(pre))
        => DcrRemovedBeforeRequest

\* C27, the part that holds: the association is removed when the list is
\* the one name monitoring.
C27_DcrRemovedWhenOnlyMonitoring ==
    (/\ cmd.name = "aks_disable_addons"
     /\ cmd.submitted.sent
     /\ call.addons = <<"monitoring">>
     /\ MonitoringWithMsiAuth(pre))
        => DcrRemovedBeforeRequest

\* C27 failing case: monitoring with MSI auth disabled together with the
\* dashboard; the cluster is submitted with monitoring off and the
\* association was never removed.
C27_Witness ==
    /\ cmd.name = "aks_disable_addons"
    /\ call.addons = <<"monitoring", "kube-dashboard">>
    /\ MonitoringWithMsiAuth(pre)
    /\ cmd.submitted.sent
    /\ ~ProfilesOf(cmd.submitted.body)[CONST_MONITORING_ADDON_NAME].enabled
    /\ cmd.log = <<"get", "update_addons", "create_or_update">>

\* the add-ons with a post-creation role assignment that are enabled in
\* the cluster submitted
EnabledForRoles ==
    {key \in {CONST_MONITORING_ADDON_NAME, CONST_INGRESS_APPGW_ADDON_NAME,
              CONST_VIRTUAL_NODE_ADDON_NAME \o os_type} :
        EnabledIn(cmd.submitted.body, key)}

\* the role-assignment call made for the add-on stored under key
RoleCallOf(key) ==
    CASE key = CONST_MONITORING_ADDON_NAME -> "add_monitoring_role_assignment"
      [] key = CONST_INGRESS_APPGW_ADDON_NAME ->
             "add_ingress_appgw_addon_role_assignment"
      [] key = CONST_VIRTUAL_NODE_ADDON_NAME \o os_type ->
             "add_virtual_node_role_assignment"

\* C28: when aks_enable_addons has submitted a cluster, the handler awaited
\* the request only if monitoring, ingress-appgw or virtual-node is enabled
\* in the cluster submitted, and it assigned the role of such an add-on only
\* if that add-on is enabled there.
C28_OnlyEnabledAddonsGetRoles ==
    (cmd.name = "aks_enable_addons" /\ cmd.submitted.sent)
        => /\ Positions("wait") # {} => EnabledForRoles # {}
           /\ \A key \in {CONST_MONITORING_ADDON_NAME, CONST_INGRESS_APPGW_ADDON_NAME,
                          CONST_VIRTUAL_NODE_ADDON_NAME \o os_type} :
                 Positions(RoleCallOf(key)) # {} => key \in EnabledForRoles

\* C28, the part that holds: monitoring and ingress-appgw get their role
\* only when enabled, and the wait is forced only by one of them enabled or
\* by a virtual-node profile, enabled or not.
C28_EnabledButVirtualNode ==
    (cmd.name = "aks_enable_addons" /\ cmd.submitted.sent)
        => /\ Positions("wait") # {}
                 => \/ EnabledForRoles # {}
                    \/ (CONST_VIRTUAL_NODE_ADDON_NAME \o os_type)
                           \in DOMAIN ProfilesOf(cmd.submitted.body)
           /\ \A key \in {CONST_MONITORING_ADDON_NAME, CONST_INGRESS_APPGW_ADDON_NAME} :
                 Positions(RoleCallOf(key)) # {} => key \in EnabledForRoles

\* C28 failing case: the dashboard is enabled with no_wait on a cluster that
\* holds a disabled virtual-node profile; the handler waits and assigns the
\* virtual-node role.
C28_Witness ==
    /\ cmd.name = "aks_enable_addons"
    /\ cmd.no_wait
    /\ call.addons = <<"kube-dashboard">>
    /\ (CONST_VIRTUAL_NODE_ADDON_NAME \o os_type) \in DOMAIN ProfilesOf(cmd.submitted.body)
    /\ ~ProfilesOf(cmd.submitted.body)[CONST_VIRTUAL_NODE_ADDON_NAME \o os_type].enabled
    /\ cmd.log = <<"get", "update_addons", "create_or_update", "wait",
                   "add_virtual_node_role_assignment">>

-----------------------------------------------------------------------------
(* _update_addons: enable, disable, enable *)

\* the last call enabled its add-ons and returned
Enabled1 == Called /\ call.enable /\ ret = "ok"

\* what disabling the same list leaves of the cluster the last call returned
Disabled2 == update_addons(instance, call.addons, FALSE, DefaultOptions)

\* what enabling the list again, with the same options, leaves of that
Enabled3 == update_addons(Disabled2.instance, call.addons, TRUE, call.o)

\* the keys for which the enable branch builds the config from the options
BuildsConfig ==
    {CONST_MONITORING_ADDON_NAME, CONST_VIRTUAL_NODE_ADDON_NAME \o os_type,
     CONST_INGRESS_APPGW_ADDON_NAME, CONST_OPEN_SERVICE_MESH_ADDON_NAME,
     CONST_CONFCOM_ADDON_NAME, CONST_AZURE_KEYVAULT_SECRETS_PROVIDER_ADDON_NAME}

\* the config the profile of key had, under any spelling, before the last
\* call; None when there was no profile
ConfigBefore(key) ==
    IF \E k \in DOMAIN ProfilesOf(pre) : Lower(k) = Lower(key)
    THEN {ProfilesOf(pre)[k].config : k \in {x \in DOMAIN ProfilesOf(pre) :
                                                Lower(x) = Lower(key)}}
    ELSE {NoneConfig}

\* C29 as stated: where enabling succeeded, disabling and enabling again
\* with the same options succeed, and every add-on named has the enabled
\* flag and the config it had after the first enable.
C29_AsStated ==
    Enabled1
        => /\ Disabled2.err = "ok"
           /\ Enabled3.err = "ok"
           /\ \A key \in KeysCalled :
                 /\ ProfilesOf(Enabled3.instance)[key].enabled
                       = ProfilesOf(instance)[key].enabled
                 /\ ProfilesOf(Enabled3.instance)[key].config
                       = ProfilesOf(instance)[key].config
           /\ "web_application_routing" \in Tokens
                 => Enabled3.instance.ingress_profile = instance.ingress_profile

\* C29 (amended): where enabling succeeded, disabling and enabling again
\* with the same options succeed and every add-on named is enabled after
\* both enables.  The config after the second enable is the config after the
\* first for the add-ons whose config the enable branch builds from the
\* options, and for web_application_routing; for the other add-ons the first
\* enable keeps the config the profile had before the call and the second
\* leaves None, the disable having cleared it.
C29_RoundTrip ==
    Enabled1
        => /\ Disabled2.err = "ok"
           /\ Enabled3.err = "ok"
           /\ \A key \in KeysCalled :
                 /\ ProfilesOf(instance)[key].enabled
                 /\ ProfilesOf(Enabled3.instance)[key].enabled
                 /\ IF key \in BuildsConfig
                    THEN ProfilesOf(Enabled3.instance)[key].config
                            = ProfilesOf(instance)[key].config
                    ELSE /\ ProfilesOf(instance)[key].config \in ConfigBefore(key)
                         /\ ProfilesOf(Enabled3.instance)[key].config = NoneConfig
           /\ "web_application_routing" \in Tokens
                 => Enabled3.instance.ingress_profile = instance.ingress_profile

\* C29 witness: the dashboard enabled on a cluster where it is enabled with
\* a config; the first enable keeps the config, the second enable, after the
\* disable, leaves None.
C29_Witness ==
    /\ Enabled1
    /\ call.addons = <<"kube-dashboard">>
    /\ ProfilesOf(instance)[CONST_KUBE_DASHBOARD_ADDON_NAME].config = Config(EmptyDict)
    /\ Disabled2.err = "ok"
    /\ Enabled3.err = "ok"
    /\ ProfilesOf(Enabled3.instance)[CONST_KUBE_DASHBOARD_ADDON_NAME].enabled
    /\ ProfilesOf(Enabled3.instance)[CONST_KUBE_DASHBOARD_ADDON_NAME].config = NoneConfig

====
